---- MODULE Spec2Model ----
(***************************************************************************)
(* Model of the per-user browser session orchestration layer of            *)
(* xiaohongshu-worker: BrowserPool (src/core/browser_pool.py),             *)
(* BrowserManager (src/core/browser.py) and the login endpoints of         *)
(* src/main.py.                                                            *)
(*                                                                         *)
(* Twelve specifications share the module:                                 *)
(*   SpecPool     the pool's coroutines acquire / release / cleanup_idle / *)
(*                close_all, as time passes;                               *)
(*   SpecWarm     the pool with callers that run start_browser on the      *)
(*                engines they have checked out;                           *)
(*   SpecPublish  one run of BrowserManager.publish_content, step by step; *)
(*   SpecLogin    the QR-login and status endpoints over login_sessions;   *)
(*   SpecQr       one run of BrowserManager.get_login_qrcode, step by step;*)
(*   SpecSession  one BrowserManager: start_browser statement by statement *)
(*                on a worker thread, close() and the endpoint's timeout;  *)
(*   SpecAdmission  the semaphore MAX_CONCURRENT_BROWSERS, the publish     *)
(*                tasks and the browsers of the login sessions;            *)
(*   SpecCapture  the QR capture step of get_login_qrcode over every small *)
(*                page;                                                    *)
(*   SpecProfiles the profile directories under data/users, the login      *)
(*                sessions and publish tasks that use them, and the        *)
(*                endpoints that delete them;                              *)
(*   SpecAdmissionFair  SpecAdmission with every enabled step of a publish *)
(*                task eventually taken;                                   *)
(*   SpecRequests QR requests of one user whose coroutines and executor    *)
(*                threads interleave;                                      *)
(*   SpecPolls    status polls of one user that interleave the same way.   *)
(*                                                                         *)
(* The pool's coroutines hold self.lock for their whole body and await     *)
(* nothing inside it, so on the event loop each call is one atomic step.   *)
(* A manager the pool closes is dropped by the pool: its slot is freed.    *)
(***************************************************************************)
EXTENDS Integers, Sequences, FiniteSets, TLC

VARIABLES
    \* ---- BrowserPool ----
    isLinux,      \* platform.system() == 'Linux'
    in_use,       \* self.in_use: user_id -> engine
    available,    \* self.available: list of (engine, last_used)
    mgr,          \* the BrowserManager objects: engine -> fields
    now,          \* time.time()
    out,          \* user_id -> engines handed out by acquire since the user's checkout
    acqLog,       \* acquire results since the empty pool, while only distinct-user acquires ran
    last,         \* the last call and what it returned
    trace,        \* lock / close events of the last pool call, in program order
    \* ---- one run of BrowserManager.publish_content ----
    p_pc,         \* the statement the run is at
    p_mgr,        \* self: the BrowserManager background_publisher constructed
    p_task,       \* the arguments: user_id, publish_type, cookies given or not, files
    p_disk,       \* the local files that exist
    p_log,        \* the browser and file-system calls made so far, in order
    p_exc,        \* the message of the exception the except clause caught
    p_ret,        \* how the call ended: a returned (ok, message) pair or a raised exception
    \* ---- the login endpoints of main.py ----
    login_sessions, \* user_id -> BrowserManager
    l_site,       \* user_id -> what the session's page shows: its URL, the web_session cookie
    l_clock,      \* seconds of wall-clock time
    l_qrAt,       \* user_id -> the time of the user's QR request
    l_last,       \* the last response an endpoint gave
    l_chk,        \* the last status request: what check_login_status saw and what the endpoint did
    l_poll,       \* the last status request: the session was registered, what get_cookies gave, what was answered
    \* ---- one run of BrowserManager.get_login_qrcode ----
    q_pc,         \* the statement the run is at
    q_mgr,        \* self
    q_page,       \* what the browser shows: the URL, whether a QR code is on the page
    q_loc,        \* the locals page, switched and qr_found, "unbound" until assigned
    q_log,        \* the driver calls made so far, in order
    q_exc,        \* the exception the outer except clause caught
    q_ret,        \* the dict returned: its status and where its qr_image came from
    \* ---- one BrowserManager, its callers and the worker thread running start_browser ----
    s_pc,         \* the statement of start_browser the thread is at, "idle" between calls
    s_mgr,        \* the BrowserManager
    s_ref,        \* the browser process and the display its handles refer to
    s_procs,      \* the browser processes the manager launched that are running
    s_disps,      \* the virtual displays the manager started that are running
    s_calls,      \* the number of start_browser calls made
    s_ev,         \* the wipe, display and launch events of the current call, in order
    s_last,       \* how the last call of start_browser ended
    s_reg,        \* "held": a caller holds the manager; "timed_out": the endpoint gave it up
    s_close,      \* the close() calls made in a row since the last start_browser, the last one's effect
    \* ---- admission: the publish tasks and login sessions of main.py ----
    a_task,       \* task -> where its background_publisher coroutine is
    a_sem,        \* the value of the semaphore MAX_CONCURRENT_BROWSERS
    a_login,      \* the users whose login session has a running browser
    \* the QR capture step of get_login_qrcode
    cap_page,     \* the elements of the login page, in document order
    cap_pc,       \* "idle", "search", "shoot", "done"
    cap_res,      \* what the search ended with: strategies run, the one that accepted, its element
    cap_ret,      \* how the step ended: the image returned, or the exception
    \* the profile directories under data/users and the engines that use them
    d_login,      \* the users in login_sessions, each with a running browser
    d_task,       \* the publish tasks: user and position
    d_disk,       \* each user's profile directory: "absent", "empty" or "files"
    d_last,       \* the last operation, its user and result, the state before it
    \* QR requests and status polls of one user that overlap
    o_reg,        \* login_sessions[user_id]: the manager registered, 0 for no entry
    o_live,       \* the managers whose page is set, with a running browser
    o_closed,     \* the managers close() has been called on
    o_req,        \* the QR requests: position, executor thread, result, response
    o_poll        \* the status polls: position, manager fetched, what was seen, response

poolVars == <<isLinux, in_use, available, mgr, now, out, acqLog, last, trace>>
pubVars == <<p_pc, p_mgr, p_task, p_disk, p_log, p_exc, p_ret>>
loginVars == <<login_sessions, l_site, l_clock, l_qrAt, l_last, l_chk, l_poll>>

qrVars == <<q_pc, q_mgr, q_page, q_loc, q_log, q_exc, q_ret>>
sessVars == <<s_pc, s_mgr, s_ref, s_procs, s_disps, s_calls, s_ev, s_last, s_reg, s_close>>

admVars == <<a_task, a_sem, a_login>>

capVars == <<cap_page, cap_pc, cap_res, cap_ret>>

profVars == <<d_login, d_task, d_disk, d_last>>

overVars == <<o_reg, o_live, o_closed, o_req, o_poll>>

vars == <<poolVars, pubVars, loginVars, qrVars, sessVars, admVars, capVars, profVars, overVars>>

----------------------------------------------------------------------------
\* Bounds of the model.
NumUsers == 3
MaxTime == 2
MaxHandles == 2
NumFiles == 2
NumLoginUsers == 2
MaxClock == 92
MaxStarts == 3
NumTasks == 3
MaxElems == 2
NumProfUsers == 2
NumProfTasks == 2
NumReqs == 2
NumPolls == 3

Users == 1..NumUsers
LoginUsers == 1..NumLoginUsers

\* BrowserPool(max_size): the pool under check is constructed with max_size = 2.
max_size == 2

\* Identities of the BrowserManager objects the pool can refer to at one time.
Engines == 1..(max_size + 1)
NoEngine == 0

\* dict.values() and dict.pop(k)
Range(f) == {f[x] : x \in DOMAIN f}
Without(f, k) == [x \in DOMAIN f \ {k} |-> f[x]]

----------------------------------------------------------------------------
\* BrowserManager

\* os.path.abspath(f"data/users/{user_id}")
InitDir(u) == <<"data/users", u>>

\* f"./user_data/{user_id}"
PoolDir(u) == <<"user_data", u>>

\* self.page: <<>> is None, <<d>> a page of a browser process launched on profile d.
NoPage == <<>>
PageOn(d) == <<d>>

\* BrowserManager(user_id)
NewManager(u) ==
    [user_id |-> u, user_data_dir |-> InitDir(u), page |-> NoPage, display |-> "none"]

\* A slot no live BrowserManager object occupies.
NoManager ==
    [user_id |-> 0, user_data_dir |-> <<"none", 0>>, page |-> NoPage, display |-> "none"]

\* BrowserManager.close(): quit the page, stop the display, errors swallowed.
close_pageOnly(m) == [m EXCEPT !.page = NoPage]
close(m) == [m EXCEPT !.page = NoPage, !.display = "none"]

\* Outcomes of the driver calls: the liveness probe self.page.url, and any call
\* that either completes or raises.
ProbeOutcomes == {"alive", "empty", "raise"}
CallOutcomes == {"ok", "raise"}

\* BrowserManager.start_browser.  probe is the outcome of the liveness check
\* self.page.url ("alive": non-empty, "empty": empty string, "raise"), disp of
\* Display(...).start(), launch of ChromiumPage(co).
start_browser(m, linux, probe, disp, launch) ==
    IF m.page # NoPage /\ probe = "alive"
    THEN [m |-> m, ret |-> m.page, raised |-> FALSE, orphaned |-> {}]
    ELSE
        LET m1 == IF m.page # NoPage /\ probe = "raise"
                  THEN [m EXCEPT !.page = NoPage] ELSE m
            m2 == IF linux
                  THEN [m1 EXCEPT !.display = IF disp = "ok" THEN "started" ELSE "created"]
                  ELSE m1
        IN  IF (linux /\ disp = "raise") \/ launch = "raise"
            THEN [m |-> m2, ret |-> NoPage, raised |-> TRUE, orphaned |-> {}]
            ELSE [m |-> [m2 EXCEPT !.page = PageOn(m.user_data_dir)],
                  ret |-> PageOn(m.user_data_dir), raised |-> FALSE,
                  orphaned |-> IF m1.page # NoPage THEN {m1.page[1]} ELSE {}]

----------------------------------------------------------------------------
\* BrowserManager.publish_content

Files == 1..NumFiles

Ret(kind, ok, msg) == [kind |-> kind, ok |-> ok, msg |-> msg]
NoRet == Ret("none", FALSE, "")

\* The finally clause, lines 676-681: every listed file that exists is removed.
\* The files are the regular files download_file wrote under /tmp; os.remove on
\* an existing one succeeds.
RemoveFiles_onSuccess(disk, files) == IF p_ret.ok THEN disk \ files ELSE disk
RemoveFiles(disk, files) == disk \ files

\* No publish run.
PubIdle ==
    /\ p_pc = "idle"
    /\ p_mgr = NoManager
    /\ p_task = [user_id |-> 0, publish_type |-> "video", cookies |-> FALSE, files |-> {}]
    /\ p_disk = {}
    /\ p_log = <<>>
    /\ p_exc = ""
    /\ p_ret = NoRet

\* background_publisher: a BrowserManager constructed for the task, the task's
\* files downloaded, publish_content about to run.
PubStart ==
    /\ p_pc = "start_browser"
    /\ p_task \in [user_id : Users, publish_type : {"video", "image"},
                   cookies : BOOLEAN, files : SUBSET Files]
    /\ p_mgr = NewManager(p_task.user_id)
    /\ p_disk = Files
    /\ p_log = <<>>
    /\ p_exc = ""
    /\ p_ret = NoRet

\* A statement of the try block completes: on to statement next, calls logged.
Go(next, calls) ==
    /\ p_pc' = next
    /\ p_log' = p_log \o calls
    /\ UNCHANGED <<p_mgr, p_task, p_disk, p_exc, p_ret>>

\* A statement of the try block raises: control moves to the except clause.
Throw(msg, calls) ==
    /\ p_pc' = "except"
    /\ p_exc' = msg
    /\ p_log' = p_log \o calls
    /\ UNCHANGED <<p_mgr, p_task, p_disk, p_ret>>

\* line 592: page = self.start_browser(proxy_url, user_agent)
P_StartBrowser ==
    /\ p_pc = "start_browser"
    /\ \E probe \in ProbeOutcomes, disp \in CallOutcomes, launch \in CallOutcomes :
          LET r == start_browser(p_mgr, isLinux, probe, disp, launch) IN
          /\ p_mgr' = r.m
          /\ p_log' = p_log \o (IF r.m.display # p_mgr.display THEN <<"display">> ELSE <<>>)
                            \o (IF r.m.page # p_mgr.page THEN <<"launch">> ELSE <<>>)
          /\ p_pc' = IF r.raised THEN "except" ELSE "get_creator"
          /\ p_exc' = IF r.raised THEN "browser start failed" ELSE p_exc
    /\ UNCHANGED <<p_task, p_disk, p_ret>>
    /\ UNCHANGED <<poolVars, loginVars, qrVars, sessVars, admVars, capVars, profVars, overVars>>

\* line 595: page.get("https://creator.xiaohongshu.com")
P_GetCreator ==
    /\ p_pc = "get_creator"
    /\ \E o \in CallOutcomes :
          IF o = "ok" THEN Go("cookies", <<"get_creator">>) ELSE Throw("driver error", <<>>)
    /\ UNCHANGED <<poolVars, loginVars, qrVars, sessVars, admVars, capVars, profVars, overVars>>

\* lines 597-600: if cookies: set them, refresh, sleep
P_Cookies ==
    /\ p_pc = "cookies"
    /\ IF p_task.cookies
       THEN \E o \in CallOutcomes :
               IF o = "ok" THEN Go("check_login", <<"set_cookies", "refresh">>)
               ELSE Throw("driver error", <<>>)
       ELSE Go("check_login", <<>>)
    /\ UNCHANGED <<poolVars, loginVars, qrVars, sessVars, admVars, capVars, profVars, overVars>>

\* lines 603-604: if "login" in page.url: raise
P_CheckLogin ==
    /\ p_pc = "check_login"
    /\ \E url \in {"login", "creator"} :
          IF url = "login"
          THEN Throw("Cookie expired or not logged in", <<"login_url">>)
          ELSE Go("get_publish", <<>>)
    /\ UNCHANGED <<poolVars, loginVars, qrVars, sessVars, admVars, capVars, profVars, overVars>>

\* line 607: page.get('https://creator.xiaohongshu.com/publish/publish')
P_GetPublish ==
    /\ p_pc = "get_publish"
    /\ \E o \in CallOutcomes :
          IF o = "ok"
          THEN Go(IF p_task.publish_type = "image" THEN "tab" ELSE "find_upload", <<"get_publish">>)
          ELSE Throw("driver error", <<>>)
    /\ UNCHANGED <<poolVars, loginVars, qrVars, sessVars, admVars, capVars, profVars, overVars>>

\* lines 612-628: the image tab, by text, else the second .tab-item; errors absorbed
P_Tab ==
    /\ p_pc = "tab"
    /\ \E o \in {"text", "index", "none", "raise"} :
          Go("find_upload", IF o = "text" THEN <<"tab_text">>
                            ELSE IF o = "index" THEN <<"tab_index">> ELSE <<>>)
    /\ UNCHANGED <<poolVars, loginVars, qrVars, sessVars, admVars, capVars, profVars, overVars>>

\* lines 631-633: the file input, or raise "Upload input not found"
P_FindUpload ==
    /\ p_pc = "find_upload"
    /\ \E o \in {"found", "missing", "raise"} :
          IF o = "found" THEN Go("upload", <<>>)
          ELSE IF o = "missing" THEN Throw("Upload input not found", <<>>)
          ELSE Throw("driver error", <<>>)
    /\ UNCHANGED <<poolVars, loginVars, qrVars, sessVars, admVars, capVars, profVars, overVars>>

\* line 637: upload_input.input(files)
P_Upload ==
    /\ p_pc = "upload"
    /\ \E o \in CallOutcomes :
          IF o = "ok" THEN Go("wait_upload", <<"upload">>) ELSE Throw("driver error", <<>>)
    /\ UNCHANGED <<poolVars, loginVars, qrVars, sessVars, admVars, capVars, profVars, overVars>>

\* lines 641-645: video: page.wait.ele('text:重新上传', timeout=120), its result
\* not looked at; image: time.sleep(5)
P_WaitUpload ==
    /\ p_pc = "wait_upload"
    /\ IF p_task.publish_type = "video"
       THEN \E o \in {"seen", "timeout", "raise"} :
               IF o = "seen" THEN Go("fill", <<"upload_seen">>)
               ELSE IF o = "timeout" THEN Go("fill", <<"upload_timeout">>)
               ELSE Throw("driver error", <<>>)
       ELSE Go("fill", <<>>)
    /\ UNCHANGED <<poolVars, loginVars, qrVars, sessVars, admVars, capVars, profVars, overVars>>

\* lines 650-654: title and description, each filled when its field is found
P_Fill ==
    /\ p_pc = "fill"
    /\ \E title \in BOOLEAN, desc \in BOOLEAN, o \in CallOutcomes :
          IF o = "ok"
          THEN Go("submit", (IF title THEN <<"title">> ELSE <<>>)
                                \o (IF desc THEN <<"desc">> ELSE <<>>))
          ELSE Throw("driver error", <<>>)
    /\ UNCHANGED <<poolVars, loginVars, qrVars, sessVars, admVars, capVars, profVars, overVars>>

\* lines 657-665: click the publish button and return, or raise
P_Submit ==
    /\ p_pc = "submit"
    /\ \E o \in {"found", "missing", "raise"} :
          IF o = "found"
          THEN /\ p_pc' = "finally"
               /\ p_log' = p_log \o <<"click">>
               /\ p_ret' = Ret("return", TRUE, "Publish successful")
               /\ UNCHANGED <<p_mgr, p_task, p_disk, p_exc>>
          ELSE IF o = "missing" THEN Throw("Publish button not found", <<>>)
          ELSE Throw("driver error", <<>>)
    /\ UNCHANGED <<poolVars, loginVars, qrVars, sessVars, admVars, capVars, profVars, overVars>>

\* lines 667-671: the except clause; the screenshot is taken outside any try
P_Except ==
    /\ p_pc = "except"
    /\ p_pc' = "finally"
    /\ IF p_mgr.page # NoPage
       THEN \E o \in CallOutcomes :
               IF o = "ok"
               THEN /\ p_log' = p_log \o <<"screenshot">>
                    /\ p_ret' = Ret("return", FALSE, p_exc)
               ELSE /\ p_log' = p_log
                    /\ p_ret' = Ret("raise", FALSE, "screenshot failed")
       ELSE /\ p_log' = p_log
            /\ p_ret' = Ret("return", FALSE, p_exc)
    /\ UNCHANGED <<p_mgr, p_task, p_disk, p_exc>>
    /\ UNCHANGED <<poolVars, loginVars, qrVars, sessVars, admVars, capVars, profVars, overVars>>

\* lines 673-681: the finally clause: self.close(), then the files
P_Finally ==
    /\ p_pc = "finally"
    /\ p_pc' = "done"
    /\ p_mgr' = close(p_mgr)
    /\ p_disk' = RemoveFiles(p_disk, p_task.files)
    /\ p_log' = p_log \o (IF p_mgr.page # NoPage THEN <<"quit">> ELSE <<>>)
                      \o (IF p_mgr.display # "none" THEN <<"display_stop">> ELSE <<>>)
                      \o <<"remove_files">>
    /\ UNCHANGED <<p_task, p_exc, p_ret>>
    /\ UNCHANGED <<poolVars, loginVars, qrVars, sessVars, admVars, capVars, profVars, overVars>>

----------------------------------------------------------------------------
\* BrowserManager.get_login_qrcode

\* What the browser shows.  url: "none" without a browser, "blank" in a new one,
\* "login" on creator.xiaohongshu.com/login, "home" on creator/home; qr: a QR code
\* (canvas or image) is on the page.
Shows(url, qr) == [url |-> url, qr |-> qr]

\* The locals, each "unbound" until a statement assigns it.
Locals(page, switched, qr_found) == [page |-> page, switched |-> switched, qr_found |-> qr_found]
NoLocals == Locals("unbound", "unbound", "unbound")

\* The returned dict.  src: where qr_image came from: "img_src" (line 404), "qr_box"
\* (line 459), "fallback" (lines 478-483), "emergency" (line 497), "none" without one.
Result(status, src) == [status |-> status, src |-> src]
NoResult == Result("none", "none")

\* No run of get_login_qrcode.
QrIdle ==
    /\ q_pc = "idle"
    /\ q_mgr = NoManager
    /\ q_page = Shows("none", FALSE)
    /\ q_loc = NoLocals
    /\ q_log = <<>>
    /\ q_exc = ""
    /\ q_ret = NoResult

\* get_login_qrcode is about to run on a manager: one just constructed, as in
\* main.get_login_qrcode, or one whose browser an earlier call started.
QrStart ==
    /\ q_pc = "start_browser"
    /\ \E u \in LoginUsers :
          \/ /\ q_mgr = NewManager(u)
             /\ q_page = Shows("none", FALSE)
          \/ /\ q_mgr = [NewManager(u) EXCEPT !.page = PageOn(InitDir(u)),
                                              !.display = IF isLinux THEN "started" ELSE "none"]
             /\ q_page \in {Shows("login", TRUE), Shows("login", FALSE), Shows("home", FALSE)}
    /\ q_loc = NoLocals
    /\ q_log = <<>>
    /\ q_exc = ""
    /\ q_ret = NoResult

\* A statement of the outer try block completes.
QGo(next, calls) ==
    /\ q_pc' = next
    /\ q_log' = q_log \o calls
    /\ UNCHANGED <<q_mgr, q_exc, q_ret>>

\* A statement of the outer try block raises: control moves to line 485.
QThrow(msg, calls) ==
    /\ q_pc' = "except"
    /\ q_exc' = msg
    /\ q_log' = q_log \o calls
    /\ UNCHANGED <<q_mgr, q_page, q_loc, q_ret>>

\* return {...} inside the try block
QReturn(result, calls) ==
    /\ q_pc' = "done"
    /\ q_ret' = result
    /\ q_log' = q_log \o calls
    /\ UNCHANGED <<q_mgr, q_page, q_loc, q_exc>>

\* line 107: page = self.start_browser(proxy_url, user_agent)
Q_StartBrowser ==
    /\ q_pc = "start_browser"
    /\ \E probe \in ProbeOutcomes, disp \in CallOutcomes, launch \in CallOutcomes :
          LET r == start_browser(q_mgr, isLinux, probe, disp, launch)
              reuse == q_mgr.page # NoPage /\ probe = "alive"
          IN
          /\ q_mgr' = r.m
          /\ q_log' = q_log \o (IF isLinux /\ ~reuse THEN <<"display">> ELSE <<>>)
                            \o (IF ~reuse /\ ~r.raised THEN <<"launch">> ELSE <<>>)
          /\ q_pc' = IF r.raised THEN "except" ELSE "quick_check"
          /\ q_exc' = IF r.raised THEN "browser start failed" ELSE q_exc
          /\ q_loc' = IF r.raised THEN q_loc ELSE [q_loc EXCEPT !.page = "bound"]
          /\ q_page' = IF r.raised THEN q_page
                       ELSE IF reuse THEN q_page
                       ELSE Shows("blank", FALSE)
    /\ q_ret' = q_ret
    /\ UNCHANGED <<poolVars, pubVars, loginVars, sessVars, admVars, capVars, profVars, overVars>>

\* lines 111-126: on the login page already: look for the QR code, reload when
\* there is none; elsewhere: navigate to the login page.  The site sends an
\* authenticated browser on to creator/home.
Q_QuickCheck ==
    /\ q_pc = "quick_check"
    /\ \E o \in CallOutcomes, land \in {"login", "home"}, qr \in BOOLEAN :
          IF o = "raise" THEN QThrow("driver error", <<>>)
          ELSE IF q_page.url = "login"
          THEN IF q_page.qr
               THEN QGo("check_home", <<"quick_probe">>) /\ UNCHANGED <<q_page, q_loc>>
               ELSE /\ QGo("check_home", <<"quick_probe", "reload">>)
                    /\ q_page' = Shows(land, land = "login" /\ qr)
                    /\ q_loc' = q_loc
          ELSE /\ QGo("check_home", <<"goto_login">>)
               /\ q_page' = Shows(land, land = "login" /\ qr)
               /\ q_loc' = q_loc
    /\ UNCHANGED <<poolVars, pubVars, loginVars, sessVars, admVars, capVars, profVars, overVars>>

\* line 129: "creator/home" in page.url
AlreadyLoggedIn_never(url) == FALSE
AlreadyLoggedIn(url) == url = "home"

\* lines 129-130: if "creator/home" in page.url: return logged_in
Q_CheckHome ==
    /\ q_pc = "check_home"
    /\ IF AlreadyLoggedIn(q_page.url)
       THEN QReturn(Result("logged_in", "none"), <<"at_home">>)
       ELSE QGo("probe_qr", IF q_page.url = "home" THEN <<"at_home">> ELSE <<>>)
            /\ UNCHANGED <<q_page, q_loc>>
    /\ UNCHANGED <<poolVars, pubVars, loginVars, sessVars, admVars, capVars, profVars, overVars>>

\* lines 134-139: wait for the document, qr_present = canvas or .qrcode-img found
Q_ProbeQr ==
    /\ q_pc = "probe_qr"
    /\ \E o \in CallOutcomes :
          IF o = "raise" THEN QThrow("driver error", <<>>)
          ELSE IF q_page.qr
          THEN QGo("detect", <<"probe_present">>) /\ UNCHANGED <<q_page, q_loc>>
          ELSE /\ QGo("strategy4", <<"probe_absent">>)
               /\ q_loc' = [q_loc EXCEPT !.switched = "False"]
               /\ q_page' = q_page
    /\ UNCHANGED <<poolVars, pubVars, loginVars, sessVars, admVars, capVars, profVars, overVars>>

\* lines 146-213, the first switch strategy and its fallback, in one try block.
\* sms: 'text:短信登录' is found; corner: an SVG in the top-right corner of the
\* login container is found and clicked (switched = True); appears: the click
\* brings up the QR code.  Line 195 then reads the local qr_found: no statement
\* before it assigns the name, the read raises UnboundLocalError, which line 212
\* catches; lines 196-210 (the JS click, qr_found = True) run only with
\* qr_found bound and false.
Q_Strategy4 ==
    /\ q_pc = "strategy4"
    /\ \E sms \in BOOLEAN, corner \in BOOLEAN, appears \in BOOLEAN, js \in BOOLEAN :
          LET clicked == sms /\ corner
              readOk == q_loc.qr_found # "unbound"
              runJs == sms /\ readOk /\ q_loc.qr_found = "False"
          IN  /\ QGo("line216", <<"find_sms">>
                                   \o (IF clicked THEN <<"svg_click">> ELSE <<>>)
                                   \o (IF runJs THEN <<"js_click">> ELSE <<>>))
              /\ q_page' = IF (clicked /\ appears) \/ (runJs /\ js)
                           THEN Shows(q_page.url, TRUE) ELSE q_page
              /\ q_loc' = [q_loc EXCEPT !.switched = IF clicked THEN "True" ELSE @,
                                        !.qr_found = IF runJs /\ js THEN "True" ELSE @]
    /\ UNCHANGED <<poolVars, pubVars, loginVars, sessVars, admVars, capVars, profVars, overVars>>

\* lines 216-367: "if not qr_found:" guards strategies 6, 7 and 8 and the final
\* report; it stands outside the try blocks, so a read of the unbound local goes
\* to the outer except clause.  Each strategy clicks and sets qr_found when a QR
\* code appears.
Q_Line216 ==
    /\ q_pc = "line216"
    /\ IF q_loc.qr_found = "unbound"
       THEN QThrow("UnboundLocalError", <<>>)
       ELSE IF q_loc.qr_found = "True"
       THEN QGo("detect", <<>>) /\ UNCHANGED <<q_page, q_loc>>
       ELSE \E n \in 1..3, appears \in BOOLEAN :
               /\ QGo("detect", SubSeq(<<"strategy6", "strategy7", "strategy8">>, 1, n))
               /\ q_page' = IF appears THEN Shows(q_page.url, TRUE) ELSE q_page
               /\ q_loc' = [q_loc EXCEPT !.qr_found = IF appears THEN "True" ELSE "False"]
    /\ UNCHANGED <<poolVars, pubVars, loginVars, sessVars, admVars, capVars, profVars, overVars>>

\* lines 370-483, the QR capture: a base64 image's src (line 404), a screenshot of
\* the QR element found (line 459), or of the login box or the page when none is
\* found (lines 462-483).  found: which search finds a valid QR element.
Q_Detect ==
    /\ q_pc = "detect"
    /\ \E found \in {"img_src", "qr_box", "none"}, o \in CallOutcomes :
          /\ (found # "none") => q_page.qr
          /\ IF o = "raise" THEN QThrow("driver error", <<"detect">>)
             ELSE QReturn(Result("waiting_scan", IF found = "none" THEN "fallback" ELSE found),
                          <<"detect">>)
    /\ UNCHANGED <<poolVars, pubVars, loginVars, sessVars, admVars, capVars, profVars, overVars>>

\* lines 485-509, the outer except clause: a screenshot of whatever self.page
\* shows is returned as waiting_scan; when that fails too, status error.
Q_Except ==
    /\ q_pc = "except"
    /\ q_pc' = "done"
    /\ IF q_mgr.page # NoPage
       THEN \E o \in CallOutcomes :
               IF o = "ok"
               THEN /\ q_log' = q_log \o <<"emergency_shot">>
                    /\ q_ret' = Result("waiting_scan", "emergency")
               ELSE /\ q_log' = q_log
                    /\ q_ret' = Result("error", "none")
       ELSE /\ q_log' = q_log
            /\ q_ret' = Result("error", "none")
    /\ UNCHANGED <<q_mgr, q_page, q_loc, q_exc>>
    /\ UNCHANGED <<poolVars, pubVars, loginVars, sessVars, admVars, capVars, profVars, overVars>>

----------------------------------------------------------------------------
\* The QR capture step of get_login_qrcode, lines 370-483, as a function of the
\* elements on the page.

\* line 383: rect.size[0] > 50 and rect.size[1] > 50
MinQr == 50
Sizes == {MinQr, MinQr + 1}

\* An element.  src: "b64" a data:image src with 'base64,' in it, "b64_nocomma" one
\* that names data:image and base64 without 'base64,', "plain" any other.  qr: the
\* class (div) or the alt/src (img) matches the QR selectors.  near: the element
\* is a child of the parent of the div whose text contains the scan label.
Elem(tag, src, qr, near, w, h) ==
    [tag |-> tag, src |-> src, qr |-> qr, near |-> near, w |-> w, h |-> h]
Elems ==
    {Elem("img", src, qr, near, w, h) :
        src \in {"plain", "b64", "b64_nocomma"}, qr \in BOOLEAN, near \in BOOLEAN,
        w \in Sizes, h \in Sizes}
    \cup {Elem("canvas", "plain", FALSE, near, w, h) : near \in BOOLEAN, w \in Sizes, h \in Sizes}
    \cup {Elem("div", "plain", qr, FALSE, w, h) : qr \in BOOLEAN, w \in Sizes, h \in Sizes}
Pages == UNION {[1..n -> Elems] : n \in 0..MaxElems}

\* The strategies in the order of the code: lines 393-406, 408-416, 418-427,
\* 429-438, 440-453.
Order == <<"img_b64", "canvas", "div", "img_qr", "near_text">>

\* lines 374-391, is_valid_qr
is_valid_qr_loose(e) == e.w >= MinQr /\ e.h >= MinQr
is_valid_qr(e) == e.w > MinQr /\ e.h > MinQr

\* The indices of S in increasing order: the document order eles() returns.
RECURSIVE InOrder(_)
InOrder(S) ==
    IF S = {} THEN <<>>
    ELSE LET i == CHOOSE x \in S : \A y \in S : x <= y IN <<i>> \o InOrder(S \ {i})

IsB64Img(e) == e.tag = "img" /\ e.src # "plain"
IsCanvas(e) == e.tag = "canvas"
IsQrDiv(e) == e.tag = "div" /\ e.qr
IsQrImg(e) == e.tag = "img" /\ e.qr
IsNearCanvas(e) == e.tag = "canvas" /\ e.near
IsNearImg(e) == e.tag = "img" /\ e.near

\* The elements a strategy iterates over, in the order of its loop.
Candidates(st, page) ==
    LET All == 1..Len(page) IN
    CASE st = "img_b64" -> InOrder({i \in All : IsB64Img(page[i])})
      [] st = "canvas" -> InOrder({i \in All : IsCanvas(page[i])})
      [] st = "div" -> InOrder({i \in All : IsQrDiv(page[i])})
      [] st = "img_qr" -> InOrder({i \in All : IsQrImg(page[i])})
      [] st = "near_text" -> InOrder({i \in All : IsNearCanvas(page[i])})
                                \o InOrder({i \in All : IsNearImg(page[i])})

\* What the loop body takes: a valid element; in the first strategy one whose src
\* also splits at 'base64,' (line 403, IndexError goes on to the next image).
Takes(st, e) == is_valid_qr(e) /\ (st = "img_b64" => e.src = "b64")

\* The first candidate the loop takes, 0 when it takes none.
RECURSIVE FirstTaken(_, _, _)
FirstTaken(st, page, cands) ==
    IF cands = <<>> THEN 0
    ELSE IF Takes(st, page[Head(cands)]) THEN Head(cands)
    ELSE FirstTaken(st, page, Tail(cands))

Found(tried, by, elem) == [tried |-> tried, by |-> by, elem |-> elem]
NoFound == Found(<<>>, "none", 0)

\* Strategy k and, through "if not qr_box", the ones after it.
RECURSIVE Search(_, _, _)
Search(page, k, tried) ==
    IF k > Len(Order) THEN Found(tried, "none", 0)
    ELSE LET e == FirstTaken(Order[k], page, Candidates(Order[k], page)) IN
         IF e # 0 THEN Found(Append(tried, Order[k]), Order[k], e)
         ELSE Search(page, k + 1, Append(tried, Order[k]))

\* The end of the step.  kind: "return" or "raise"; image: "src" the bytes of the
\* element's src, "element" a screenshot of the element, "fallback" one of the
\* login box or the page; elem: the element the image is of; area: what the
\* screenshot shows ("element", "login_box", "page", "none" without one); reply:
\* the dict handed to the caller.
Reply(status, keys) == [status |-> status, keys |-> keys]

\* lines 404, 460 and 483: {"status": "waiting_scan", "qr_image": base64_str}
CaptureReply(kind) ==
    IF kind = "return" THEN Reply("waiting_scan", {"status", "qr_image"})
    ELSE Reply("none", {})

Image(kind, image, elem) ==
    [kind |-> kind, image |-> image, elem |-> elem,
     area |-> IF image = "element" THEN "element"
              ELSE IF image = "fallback" THEN "page" ELSE "none",
     reply |-> CaptureReply(kind)]
NoImage == Image("none", "none", 0)

CapIdle ==
    /\ cap_page = <<>>
    /\ cap_pc = "idle"
    /\ cap_res = NoFound
    /\ cap_ret = NoImage

CapStart ==
    /\ cap_page \in Pages
    /\ cap_pc = "search"
    /\ cap_res = NoFound
    /\ cap_ret = NoImage

\* lines 393-453: the five searches.  The first returns at once (line 404).
Cap_Search ==
    /\ cap_pc = "search"
    /\ cap_res' = Search(cap_page, 1, <<>>)
    /\ IF cap_res'.by = "img_b64"
       THEN cap_pc' = "done" /\ cap_ret' = Image("return", "src", cap_res'.elem)
       ELSE cap_pc' = "shoot" /\ cap_ret' = cap_ret
    /\ UNCHANGED cap_page
    /\ UNCHANGED <<poolVars, pubVars, loginVars, qrVars, sessVars, admVars, profVars, overVars>>

\* lines 457-483: the screenshot of qr_box, or of the login box or the page when
\* qr_box is None; a failing screenshot leaves the step as an exception.
\* box: the login box is found, by its class (line 465) or three levels above
\* the scan-login text (lines 468-474).
Cap_Shoot ==
    /\ cap_pc = "shoot"
    /\ cap_pc' = "done"
    /\ \E o \in CallOutcomes, box \in BOOLEAN :
          cap_ret' = IF o = "raise" THEN Image("raise", "none", 0)
                     ELSE IF cap_res.elem # 0 THEN Image("return", "element", cap_res.elem)
                     ELSE IF box THEN [Image("return", "fallback", 0) EXCEPT !.area = "login_box"]
                     ELSE Image("return", "fallback", 0)
    /\ UNCHANGED <<cap_page, cap_res>>
    /\ UNCHANGED <<poolVars, pubVars, loginVars, qrVars, sessVars, admVars, profVars, overVars>>

----------------------------------------------------------------------------
\* The profile directories data/users/{user_id} and the engines that use them:
\* the login sessions of main.login_sessions and the publish tasks of
\* background_publisher, with the endpoints that delete directories.

ProfUsers == 1..NumProfUsers
ProfTasks == 1..NumProfTasks

\* A publish task.  pc: "none" not submitted, "constructed" BrowserManager(user_id)
\* made, "running" its browser is up, "done".
Task(u, pc) == [user |-> u, pc |-> pc]
NoTask == Task(0, "none")

\* What a request saw before it ran, and what it did.  twice: the request before
\* it was the same request for the same user.
Before(disk, login) == [disk |-> disk, login |-> login]
Did(op, u, result, twice, before) ==
    [op |-> op, user |-> u, result |-> result, twice |-> twice, before |-> before]

\* The number of running browsers whose profile is data/users/u.
LiveOn(login, task, u) ==
    (IF u \in login THEN 1 ELSE 0)
        + Cardinality({t \in ProfTasks : task[t].pc = "running" /\ task[t].user = u})

\* shutil.rmtree(dir) under "if os.path.exists(dir)" and try/except: the directory
\* goes unless the call raises; it can raise when a running browser has the
\* directory in use.  fails: the call raises in that case.
rmtree(state, inUse, fails) ==
    IF state = "absent" THEN "absent"
    ELSE IF inUse /\ fails THEN state
    ELSE "absent"

\* os.makedirs(dir, exist_ok=True)
makedirs(state) == IF state = "absent" THEN "empty" ELSE state

\* utils.clean_all_user_data, lines 36-57: every directory under data/users.
\* failing: the users whose rmtree raises when their directory is in use.
clean_all_user_data(disk, login, task, failing) ==
    [v \in ProfUsers |-> rmtree(disk[v], LiveOn(login, task, v) > 0, v \in failing)]

\* start_browser on a manager without a page, lines 68-76 and 92: rmtree,
\* makedirs, and the browser writing its profile once launched.
ColdStart(state, inUse, fails, launch) ==
    LET wiped == makedirs(rmtree(state, inUse, fails))
    IN  IF launch = "ok" THEN "files" ELSE wiped

ProfIdle ==
    /\ d_login = {}
    /\ d_task = [t \in ProfTasks |-> NoTask]
    /\ d_disk = [u \in ProfUsers |-> "absent"]
    /\ d_last = Did("none", 0, "none", FALSE, Before(<<>>, {}))

\* POST /api/v1/login/qrcode, main.py lines 283-331: the force_fresh cleaning, the
\* close of an older session of the user, BrowserManager(user_id), and
\* get_login_qrcode's start_browser; a failed request closes and removes the
\* session.
D_RequestQr ==
    /\ \E u \in ProfUsers, force_fresh \in BOOLEAN, failing \in SUBSET ProfUsers,
          launch \in CallOutcomes :
          LET d1 == IF force_fresh THEN clean_all_user_data(d_disk, d_login, d_task, failing)
                    ELSE d_disk
              login1 == d_login \ {u}
              d2 == [d1 EXCEPT ![u] = ColdStart(makedirs(@), LiveOn(login1, d_task, u) > 0,
                                                 u \in failing, launch)]
          IN  /\ d_disk' = d2
              /\ d_login' = IF launch = "ok" THEN login1 \cup {u} ELSE login1
              /\ d_last' = Did(IF force_fresh THEN "qrcode_fresh" ELSE "qrcode", u,
                               IF launch = "ok" THEN "success" ELSE "500", FALSE,
                               Before(d_disk, d_login))
    /\ UNCHANGED d_task
    /\ UNCHANGED <<poolVars, pubVars, loginVars, qrVars, sessVars, admVars, capVars, overVars>>

\* GET /api/v1/login/status, main.py lines 352-359, on a login seen: close() and
\* del login_sessions[user_id]; the directory stays.
D_StatusSuccess ==
    /\ \E u \in d_login :
          /\ d_login' = d_login \ {u}
          /\ d_last' = Did("status", u, "success", FALSE, Before(d_disk, d_login))
    /\ UNCHANGED <<d_task, d_disk>>
    /\ UNCHANGED <<poolVars, pubVars, loginVars, qrVars, sessVars, admVars, capVars, overVars>>

\* DELETE /api/v1/login/session/{user_id}, main.py lines 420-443
D_CloseSession ==
    /\ \E u \in ProfUsers, failing \in SUBSET ProfUsers :
          LET login1 == d_login \ {u} IN
          /\ d_login' = login1
          /\ d_disk' = clean_all_user_data(d_disk, login1, d_task, failing)
          /\ d_last' = Did("close_session", u, "success",
                           d_last.op = "close_session" /\ d_last.user = u,
                           Before(d_disk, d_login))
    /\ UNCHANGED d_task
    /\ UNCHANGED <<poolVars, pubVars, loginVars, qrVars, sessVars, admVars, capVars, overVars>>

\* background_publisher, main.py line 71: browser = BrowserManager(data.user_id)
D_TaskConstruct ==
    /\ \E t \in ProfTasks, u \in ProfUsers :
          /\ d_task[t].pc = "none"
          /\ d_task' = [d_task EXCEPT ![t] = Task(u, "constructed")]
          /\ d_disk' = [d_disk EXCEPT ![u] = makedirs(@)]
          /\ d_last' = Did("task", u, "none", FALSE, Before(d_disk, d_login))
    /\ UNCHANGED d_login
    /\ UNCHANGED <<poolVars, pubVars, loginVars, qrVars, sessVars, admVars, capVars, overVars>>

\* publish_content's start_browser; a failed launch ends the task.
D_TaskStart ==
    /\ \E t \in ProfTasks, fails \in BOOLEAN, launch \in CallOutcomes :
          LET u == d_task[t].user IN
          /\ d_task[t].pc = "constructed"
          /\ d_task' = [d_task EXCEPT ![t] = Task(u, IF launch = "ok" THEN "running" ELSE "done")]
          /\ d_disk' = [d_disk EXCEPT ![u] = ColdStart(@, LiveOn(d_login, d_task, u) > 0,
                                                        fails, launch)]
          /\ d_last' = Did("task", u, "none", FALSE, Before(d_disk, d_login))
    /\ UNCHANGED d_login
    /\ UNCHANGED <<poolVars, pubVars, loginVars, qrVars, sessVars, admVars, capVars, overVars>>

\* publish_content's finally: self.close()
D_TaskEnd ==
    /\ \E t \in ProfTasks :
          /\ d_task[t].pc = "running"
          /\ d_task' = [d_task EXCEPT ![t] = Task(d_task[t].user, "done")]
          /\ d_last' = Did("task", d_task[t].user, "none", FALSE, Before(d_disk, d_login))
    /\ UNCHANGED <<d_login, d_disk>>
    /\ UNCHANGED <<poolVars, pubVars, loginVars, qrVars, sessVars, admVars, capVars, overVars>>

\* BrowserManager.cleanup_user_data, browser.py lines 573-580, on the manager of
\* a login session or of a publish task: rmtree of its own directory, any
\* exception printed and dropped; the manager's browser is not closed first.
D_CleanupUserData ==
    /\ \E u \in ProfUsers, fails \in BOOLEAN :
          /\ u \in d_login \/ \E t \in ProfTasks : d_task[t].user = u /\ d_task[t].pc # "none"
          /\ d_disk' = [d_disk EXCEPT ![u] = rmtree(@, LiveOn(d_login, d_task, u) > 0, fails)]
          /\ d_last' = Did("cleanup_user_data", u, "returned", FALSE, Before(d_disk, d_login))
    /\ UNCHANGED <<d_login, d_task>>
    /\ UNCHANGED <<poolVars, pubVars, loginVars, qrVars, sessVars, admVars, capVars, overVars>>

----------------------------------------------------------------------------
\* One BrowserManager over its life: start_browser statement by statement on a
\* worker thread, close() by the code that holds the manager, and the timeout
\* handler of main.get_login_qrcode, which runs on the event loop while the
\* thread goes on.

Ref(pid, did) == [pid |-> pid, did |-> did]

Snapshot(m, procs, disps) == [mgr |-> m, procs |-> procs, disps |-> disps]

\* How a call of start_browser ended.  kind: "reuse" (line 63), "started" (line
\* 94), "raised"; probe: the outcome of the liveness probe, "none" without one;
\* page: the handle returned; before: the manager, processes and displays when
\* the probe was made.
Ended(kind, probe, page, before) ==
    [kind |-> kind, probe |-> probe, page |-> page, before |-> before]
NotEnded == Ended("none", "none", NoPage, Snapshot(NoManager, {}, {}))

\* The close() calls made in a row.  n: how many; raised: the last one let an
\* exception out; quit, stop: it called page.quit(), display.stop(); failed: one of
\* them had a call raise; before: manager, processes and displays before the last.
Closed(n, raised, quit, stop, failed, before) ==
    [n |-> n, raised |-> raised, quit |-> quit, stop |-> stop, failed |-> failed,
     before |-> before]
NotClosed == Closed(0, FALSE, FALSE, FALSE, FALSE, Snapshot(NoManager, {}, {}))

\* No manager.
SessIdle ==
    /\ s_pc = "idle"
    /\ s_mgr = NoManager
    /\ s_ref = Ref(0, 0)
    /\ s_procs = {}
    /\ s_disps = {}
    /\ s_calls = 0
    /\ s_ev = <<>>
    /\ s_last = NotEnded
    /\ s_reg = "none"
    /\ s_close = NotClosed

\* manager = BrowserManager(user_id), held by the code that constructed it.
SessStart ==
    /\ s_pc = "idle"
    /\ s_mgr \in {NewManager(u) : u \in LoginUsers}
    /\ s_ref = Ref(0, 0)
    /\ s_procs = {}
    /\ s_disps = {}
    /\ s_calls = 0
    /\ s_ev = <<>>
    /\ s_last = NotEnded
    /\ s_reg = "held"
    /\ s_close = NotClosed

\* start_browser, line 61: the liveness probe answers with a non-empty URL
IsAlive_never(probe) == FALSE
IsAlive(probe) == probe = "alive"

\* close(), lines 561-564 and 567-570: try: ... except: pass
Swallowed_not == FALSE
Swallowed == TRUE

\* BrowserManager.close(), statement by statement.  quit, stop: the outcomes of
\* self.page.quit() and self.display.stop().  An exception that is not swallowed
\* leaves the method before the handle is set to None.
close_run(m, quit, stop) ==
    LET hasPage == m.page # NoPage
        out1 == hasPage /\ quit = "raise" /\ ~Swallowed
        m1 == IF hasPage /\ ~out1 THEN [m EXCEPT !.page = NoPage] ELSE m
        hasDisplay == ~out1 /\ m.display # "none"
        out2 == hasDisplay /\ stop = "raise" /\ ~Swallowed
        m2 == IF hasDisplay /\ ~out2 THEN [m1 EXCEPT !.display = "none"] ELSE m1
    IN  [m |-> m2, raised |-> out1 \/ out2,
         quit |-> hasPage, stop |-> hasDisplay,
         quitOk |-> hasPage /\ quit = "ok", stopOk |-> hasDisplay /\ stop = "ok"]

\* BrowserManager.close(), with what it does to the process and the display: a
\* quit() or stop() that raises leaves the process or the display running.
close_session(quit, stop) ==
    LET r == close_run(s_mgr, quit, stop) IN
    /\ s_mgr' = r.m
    /\ s_procs' = IF r.quitOk THEN s_procs \ {s_ref.pid} ELSE s_procs
    /\ s_disps' = IF r.stopOk THEN s_disps \ {s_ref.did} ELSE s_disps
    /\ s_ref' = Ref(IF r.m.page = NoPage THEN 0 ELSE s_ref.pid,
                    IF r.m.display = "none" THEN 0 ELSE s_ref.did)

\* A thread is given start_browser to run.
S_Call ==
    /\ s_pc = "idle" /\ s_reg = "held"
    /\ s_calls < MaxStarts
    /\ s_calls' = s_calls + 1
    /\ s_pc' = "probe"
    /\ s_ev' = <<>>
    /\ s_last' = NotEnded
    /\ s_close' = NotClosed
    /\ UNCHANGED <<s_mgr, s_ref, s_procs, s_disps, s_reg>>
    /\ UNCHANGED <<poolVars, pubVars, loginVars, qrVars, admVars, capVars, profVars, overVars>>

\* lines 58-66: the probe of an existing handle
S_Probe ==
    /\ s_pc = "probe"
    /\ IF s_mgr.page = NoPage
       THEN /\ s_pc' = "wipe"
            /\ s_last' = Ended("none", "none", NoPage, Snapshot(s_mgr, s_procs, s_disps))
            /\ UNCHANGED <<s_mgr, s_ref>>
       ELSE \E probe \in ProbeOutcomes :
               /\ probe = "alive" => s_ref.pid \in s_procs
               /\ IF IsAlive(probe)
                  THEN /\ s_pc' = "idle"
                       /\ s_last' = Ended("reuse", probe, s_mgr.page,
                                          Snapshot(s_mgr, s_procs, s_disps))
                       /\ UNCHANGED <<s_mgr, s_ref>>
                  ELSE /\ s_pc' = "wipe"
                       /\ s_last' = Ended("none", probe, NoPage,
                                          Snapshot(s_mgr, s_procs, s_disps))
                       /\ s_mgr' = IF probe = "raise" THEN [s_mgr EXCEPT !.page = NoPage]
                                   ELSE s_mgr
                       /\ s_ref' = IF probe = "raise" THEN Ref(0, s_ref.did) ELSE s_ref
    /\ UNCHANGED <<s_procs, s_disps, s_calls, s_ev, s_reg, s_close>>
    /\ UNCHANGED <<poolVars, pubVars, loginVars, qrVars, admVars, capVars, profVars, overVars>>

\* lines 70-76: shutil.rmtree(self.user_data_dir), os.makedirs
S_Wipe ==
    /\ s_pc = "wipe"
    /\ s_pc' = IF isLinux THEN "display_stop" ELSE "launch"
    /\ s_ev' = Append(s_ev, [ev |-> "wipe", procs |-> s_procs, disps |-> s_disps])
    /\ UNCHANGED <<s_mgr, s_ref, s_procs, s_disps, s_calls, s_last, s_reg, s_close>>
    /\ UNCHANGED <<poolVars, pubVars, loginVars, qrVars, admVars, capVars, profVars, overVars>>

\* lines 81-85: if self.display: self.display.stop(), errors swallowed
S_DisplayStop ==
    /\ s_pc = "display_stop"
    /\ s_pc' = "display_start"
    /\ IF s_mgr.display # "none"
       THEN \E o \in CallOutcomes :
               /\ s_disps' = IF o = "ok" THEN s_disps \ {s_ref.did} ELSE s_disps
               /\ s_ev' = Append(s_ev, [ev |-> "display_stop", procs |-> s_procs,
                                        disps |-> s_disps])
       ELSE UNCHANGED <<s_disps, s_ev>>
    /\ UNCHANGED <<s_mgr, s_ref, s_procs, s_calls, s_last, s_reg, s_close>>
    /\ UNCHANGED <<poolVars, pubVars, loginVars, qrVars, admVars, capVars, profVars, overVars>>

\* lines 86-87: self.display = Display(...); self.display.start()
S_DisplayStart ==
    /\ s_pc = "display_start"
    /\ \E o \in CallOutcomes :
          /\ s_mgr' = [s_mgr EXCEPT !.display = IF o = "ok" THEN "started" ELSE "created"]
          /\ s_ref' = Ref(s_ref.pid, s_calls)
          /\ s_disps' = IF o = "ok" THEN s_disps \cup {s_calls} ELSE s_disps
          /\ s_ev' = Append(s_ev, [ev |-> "display_start", procs |-> s_procs,
                                   disps |-> s_disps])
          /\ s_pc' = IF o = "ok" THEN "launch" ELSE "idle"
          /\ s_last' = IF o = "ok" THEN s_last
                       ELSE Ended("raised", s_last.probe, NoPage, s_last.before)
    /\ UNCHANGED <<s_procs, s_calls, s_reg, s_close>>
    /\ UNCHANGED <<poolVars, pubVars, loginVars, qrVars, admVars, capVars, profVars, overVars>>

\* lines 90-94: self.page = ChromiumPage(co); return self.page.  _get_options
\* builds one configuration for the platform (headless under the virtual display
\* on Linux, --headless=new elsewhere); an exception of ChromiumPage leaves
\* start_browser.
S_Launch ==
    /\ s_pc = "launch"
    /\ s_pc' = "idle"
    /\ \E o \in CallOutcomes :
          IF o = "ok"
          THEN /\ s_mgr' = [s_mgr EXCEPT !.page = PageOn(s_mgr.user_data_dir)]
               /\ s_ref' = Ref(s_calls, s_ref.did)
               /\ s_procs' = s_procs \cup {s_calls}
               /\ s_ev' = Append(s_ev, [ev |-> "launch", procs |-> s_procs,
                                        disps |-> s_disps])
               /\ s_last' = Ended("started", s_last.probe, PageOn(s_mgr.user_data_dir),
                                  s_last.before)
          ELSE /\ s_last' = Ended("raised", s_last.probe, NoPage, s_last.before)
               /\ s_ev' = Append(s_ev, [ev |-> "launch_failed", procs |-> s_procs,
                                        disps |-> s_disps])
               /\ UNCHANGED <<s_mgr, s_ref, s_procs>>
    /\ UNCHANGED <<s_disps, s_calls, s_reg, s_close>>
    /\ UNCHANGED <<poolVars, pubVars, loginVars, qrVars, admVars, capVars, profVars, overVars>>

\* The code that holds the manager calls close() between two calls.
S_Close ==
    /\ s_pc = "idle" /\ s_reg = "held"
    /\ s_calls > 0
    /\ s_close.n < 2
    /\ \E quit \in CallOutcomes, stop \in CallOutcomes :
          LET r == close_run(s_mgr, quit, stop) IN
          /\ close_session(quit, stop)
          /\ s_close' = Closed(s_close.n + 1, r.raised, r.quit, r.stop,
                               s_close.failed \/ (r.quit /\ ~r.quitOk) \/ (r.stop /\ ~r.stopOk),
                               Snapshot(s_mgr, s_procs, s_disps))
    /\ s_last' = NotEnded
    /\ UNCHANGED <<s_pc, s_calls, s_ev, s_reg>>
    /\ UNCHANGED <<poolVars, pubVars, loginVars, qrVars, admVars, capVars, profVars, overVars>>

\* main.get_login_qrcode, lines 314-318: wait_for gives up while the thread is
\* still in the call; manager.close(), del login_sessions[user_id].  The thread
\* is not interrupted.
S_Timeout ==
    /\ s_pc # "idle" /\ s_reg = "held"
    /\ \E quit \in CallOutcomes, stop \in CallOutcomes : close_session(quit, stop)
    /\ s_reg' = "timed_out"
    /\ UNCHANGED <<s_pc, s_calls, s_ev, s_last, s_close>>
    /\ UNCHANGED <<poolVars, pubVars, loginVars, qrVars, admVars, capVars, profVars, overVars>>

----------------------------------------------------------------------------
\* Admission: MAX_CONCURRENT_BROWSERS, background_publisher and the browsers of
\* the login sessions

Tasks == 1..NumTasks

\* MAX_CONCURRENT_BROWSERS = asyncio.Semaphore(2)
AdmissionLimit == 2

\* asyncio.Semaphore.acquire: the coroutine goes on when the value is positive
SemFree_always(v) == TRUE
SemFree(v) == v > 0

\* The end of "async with MAX_CONCURRENT_BROWSERS", on a return or an exception:
\* Semaphore.release()
Leave_kept(v) == v
Leave(v) == v + 1

\* The server has started: no publish request yet, no login session.
AdmIdle ==
    /\ a_task = [t \in Tasks |-> "none"]
    /\ a_sem = AdmissionLimit
    /\ a_login = {}

\* The background_publisher bodies past "async with MAX_CONCURRENT_BROWSERS".
Admitted == {t \in Tasks : a_task[t] \in {"download", "publish", "browsing"}}

\* The engines with a running browser process: publish tasks and login sessions.
LiveEngines == Cardinality({t \in Tasks : a_task[t] = "browsing"}) + Cardinality(a_login)

\* trigger_publish, line 126: background_tasks.add_task(background_publisher, request)
A_Submit ==
    /\ \E t \in Tasks :
          /\ a_task[t] = "none"
          /\ a_task' = [a_task EXCEPT ![t] = "queued"]
    /\ UNCHANGED <<a_sem, a_login>>
    /\ UNCHANGED <<poolVars, pubVars, loginVars, qrVars, sessVars, capVars, profVars, overVars>>

\* background_publisher, lines 70-72: async with MAX_CONCURRENT_BROWSERS
A_Admit ==
    /\ \E t \in Tasks :
          /\ a_task[t] = "queued"
          /\ SemFree(a_sem)
          /\ a_task' = [a_task EXCEPT ![t] = "download"]
    /\ a_sem' = a_sem - 1
    /\ a_login' = a_login
    /\ UNCHANGED <<poolVars, pubVars, loginVars, qrVars, sessVars, capVars, profVars, overVars>>

\* lines 84-94 and 109-115: the downloads; an exception goes to the except
\* clause and out of the async with block
A_Download ==
    /\ \E t \in Tasks, o \in CallOutcomes :
          /\ a_task[t] = "download"
          /\ a_task' = [a_task EXCEPT ![t] = IF o = "ok" THEN "publish" ELSE "done"]
          /\ a_sem' = IF o = "ok" THEN a_sem ELSE Leave(a_sem)
    /\ a_login' = a_login
    /\ UNCHANGED <<poolVars, pubVars, loginVars, qrVars, sessVars, capVars, profVars, overVars>>

\* lines 96-107: publish_content on an executor thread starts its browser, or
\* fails to and ends
A_StartPublish ==
    /\ \E t \in Tasks, o \in CallOutcomes :
          /\ a_task[t] = "publish"
          /\ a_task' = [a_task EXCEPT ![t] = IF o = "ok" THEN "browsing" ELSE "done"]
          /\ a_sem' = IF o = "ok" THEN a_sem ELSE Leave(a_sem)
    /\ a_login' = a_login
    /\ UNCHANGED <<poolVars, pubVars, loginVars, qrVars, sessVars, capVars, profVars, overVars>>

\* lines 97-115: publish_content ends, its finally clause has closed the
\* browser; the coroutine leaves the async with block
A_EndPublish ==
    /\ \E t \in Tasks :
          /\ a_task[t] = "browsing"
          /\ a_task' = [a_task EXCEPT ![t] = "done"]
    /\ a_sem' = Leave(a_sem)
    /\ a_login' = a_login
    /\ UNCHANGED <<poolVars, pubVars, loginVars, qrVars, sessVars, capVars, profVars, overVars>>

\* main.get_login_qrcode, lines 297-312: a BrowserManager for the user starts
\* its browser; MAX_CONCURRENT_BROWSERS is not taken
A_LoginStart ==
    /\ \E u \in LoginUsers :
          /\ u \notin a_login
          /\ a_login' = a_login \cup {u}
    /\ UNCHANGED <<a_task, a_sem>>
    /\ UNCHANGED <<poolVars, pubVars, loginVars, qrVars, sessVars, capVars, profVars, overVars>>

\* main.check_login_status, lines 358-359, and main.close_session: the
\* session's browser is closed
A_LoginEnd ==
    /\ \E u \in a_login : a_login' = a_login \ {u}
    /\ UNCHANGED <<a_task, a_sem>>
    /\ UNCHANGED <<poolVars, pubVars, loginVars, qrVars, sessVars, capVars, profVars, overVars>>

----------------------------------------------------------------------------
\* The login endpoints: main.get_login_qrcode, main.check_login_status

\* asyncio.wait_for(..., timeout=90.0): the time a QR login attempt is given
LoginTTL == 90

\* Seconds that pass between two requests.
TickSteps == {45, 46}

\* The page of a login session: on the login URL or on creator/home, with or
\* without the web_session cookie.
Site(url, web_session) == [url |-> url, web_session |-> web_session]
NoSite == Site("none", FALSE)

Resp(op, u, status, late) == [op |-> op, user |-> u, status |-> status, late |-> late]

\* A status request.  ret: what manager.check_login_status returned; cookie: the
\* cookie jar held web_session when it was called; nav: where the navigation of
\* line 533 ended, "none" when it was not made; exported: get_cookies was called;
\* closed: manager.close() and del login_sessions[user_id] ran.
Chk(u, ret, cookie, nav, exported, closed) ==
    [user |-> u, ret |-> ret, cookie |-> cookie, nav |-> nav,
     exported |-> exported, closed |-> closed]
NoChk == Chk(0, FALSE, FALSE, "none", FALSE, FALSE)

\* A status request as the caller sees it.  had: user_id was in login_sessions
\* when it arrived; export: what manager.get_cookies returned ("some" cookies,
\* "none" for None or an empty list, "uncalled"); cookies: the "cookies" field of
\* the answer ("returned", "missing", or "none" when the answer is not success).
Poll(had, export, cookies) == [had |-> had, export |-> export, cookies |-> cookies]
NoPoll == Poll(FALSE, "uncalled", "none")

\* BrowserManager.get_cookies, lines 544-556: None without a page or when
\* page.cookies() raises.  jar: what page.cookies() returns.
get_cookies(m, jar) ==
    IF m.page = NoPage THEN "none"
    ELSE IF jar = "raise" THEN "none"
    ELSE jar

\* main.py lines 361-372: if cookies: ... "cookies": cookies  else: no such field
Answer_always(cookies) == "returned"
Answer(cookies) == IF cookies = "some" THEN "returned" ELSE "missing"

\* login_sessions = {}
LoginIdle ==
    /\ login_sessions = <<>>
    /\ l_site = [u \in LoginUsers |-> NoSite]
    /\ l_clock = 0
    /\ l_qrAt = [u \in LoginUsers |-> 0]
    /\ l_last = Resp("none", 0, "none", FALSE)
    /\ l_chk = NoChk
    /\ l_poll = NoPoll

\* check_login_status, line 535: the double check after the navigation
ConfirmedHome_any(nav) == TRUE
ConfirmedHome(nav) == nav = "home"

\* BrowserManager.check_login_status.  ele: the element 'text:发布笔记' is found;
\* nav: where the navigation to creator/home ends ("home", "login") or "raise";
\* o: a driver call of the method raises.
check_login_status(m, site, ele, nav, o) ==
    IF m.page = NoPage THEN [ret |-> FALSE, site |-> site, nav |-> "none"]
    ELSE IF o = "raise" THEN [ret |-> FALSE, site |-> site, nav |-> "none"]
    ELSE IF site.url = "home" THEN [ret |-> TRUE, site |-> site, nav |-> "none"]
    ELSE IF ele THEN [ret |-> TRUE, site |-> site, nav |-> "none"]
    ELSE IF site.web_session
    THEN IF ConfirmedHome(nav)
         THEN [ret |-> TRUE, site |-> Site(IF nav = "home" THEN "home" ELSE "login", TRUE),
               nav |-> nav]
         ELSE [ret |-> FALSE, site |-> Site("login", TRUE), nav |-> nav]
    ELSE [ret |-> FALSE, site |-> site, nav |-> "none"]

\* POST /api/v1/login/qrcode, lines 288-331.  outcome: how the call of
\* manager.get_login_qrcode under wait_for ends.
get_login_qrcode(u, outcome) ==
    LET started == start_browser(NewManager(u), isLinux, "alive", "ok", "ok").m
        kept == outcome \in {"waiting_scan", "logged_in"}
    IN  /\ login_sessions' = IF kept THEN (u :> started) @@ login_sessions
                             ELSE Without(login_sessions, u)
        /\ l_site' = [l_site EXCEPT ![u] =
                         IF outcome = "waiting_scan" THEN Site("login", FALSE)
                         ELSE IF outcome = "logged_in" THEN Site("home", TRUE)
                         ELSE NoSite]
        /\ l_qrAt' = [l_qrAt EXCEPT ![u] = l_clock]
        /\ l_last' = Resp("qrcode", u,
                          IF kept THEN outcome
                          ELSE IF outcome = "timeout" THEN "504" ELSE "500", FALSE)
        /\ l_clock' = l_clock
        /\ l_chk' = NoChk
        /\ l_poll' = NoPoll

\* GET /api/v1/login/status/{user_id}, lines 344-374
login_status(u, ele, nav, o) ==
    IF u \notin DOMAIN login_sessions
    THEN /\ l_last' = Resp("status", u, "404", FALSE)
         /\ l_chk' = NoChk
         /\ l_poll' = Poll(FALSE, "uncalled", "none")
         /\ UNCHANGED <<login_sessions, l_site, l_clock, l_qrAt>>
    ELSE LET r == check_login_status(login_sessions[u], l_site[u], ele, nav, o)
             late == l_clock - l_qrAt[u] > LoginTTL
         IN  IF r.ret
             THEN /\ login_sessions' = Without(login_sessions, u)
                  /\ l_site' = [l_site EXCEPT ![u] = NoSite]
                  /\ l_last' = Resp("status", u, "success", late)
                  /\ l_chk' = Chk(u, TRUE, l_site[u].web_session, r.nav, TRUE, TRUE)
                  /\ \E jar \in {"some", "none", "raise"} :
                        LET cookies == get_cookies(login_sessions[u], jar)
                        IN  l_poll' = Poll(TRUE, cookies, Answer(cookies))
                  /\ UNCHANGED <<l_clock, l_qrAt>>
             ELSE /\ l_site' = [l_site EXCEPT ![u] = r.site]
                  /\ l_last' = Resp("status", u, "waiting", late)
                  /\ l_chk' = Chk(u, FALSE, l_site[u].web_session, r.nav, FALSE, FALSE)
                  /\ l_poll' = Poll(TRUE, "uncalled", "none")
                  /\ UNCHANGED <<login_sessions, l_clock, l_qrAt>>

L_RequestQr ==
    /\ \E u \in LoginUsers, outcome \in {"waiting_scan", "logged_in", "error", "raise", "timeout"} :
          get_login_qrcode(u, outcome)
    /\ UNCHANGED <<poolVars, pubVars, qrVars, sessVars, admVars, capVars, profVars, overVars>>

\* The element is looked up when no driver call raised before it, and the
\* navigation is made when the element was not found; a user without a session
\* is answered before the manager is called.
L_Poll ==
    /\ \E u \in LoginUsers :
          IF u \notin DOMAIN login_sessions THEN login_status(u, FALSE, "home", "ok")
          ELSE \E o \in CallOutcomes :
                  IF o = "raise" THEN login_status(u, FALSE, "home", o)
                  ELSE \E ele \in BOOLEAN :
                          IF ele THEN login_status(u, ele, "home", o)
                          ELSE \E nav \in {"home", "login", "raise"} :
                                  login_status(u, ele, nav, o)
    /\ UNCHANGED <<poolVars, pubVars, qrVars, sessVars, admVars, capVars, profVars, overVars>>

\* The user scans the QR code: the site sets the web_session cookie and may move
\* the page to creator/home.
L_Scan ==
    /\ \E u \in DOMAIN login_sessions, url \in {"login", "home"} :
          /\ ~l_site[u].web_session
          /\ l_site' = [l_site EXCEPT ![u] = Site(url, TRUE)]
    /\ UNCHANGED <<login_sessions, l_clock, l_qrAt, l_last, l_chk, l_poll>>
    /\ UNCHANGED <<poolVars, pubVars, qrVars, sessVars, admVars, capVars, profVars, overVars>>

L_Tick ==
    /\ \E d \in TickSteps :
          /\ l_clock + d <= MaxClock
          /\ l_clock' = l_clock + d
    /\ UNCHANGED <<login_sessions, l_site, l_qrAt, l_last, l_chk, l_poll>>
    /\ UNCHANGED <<poolVars, pubVars, qrVars, sessVars, admVars, capVars, profVars, overVars>>

----------------------------------------------------------------------------
\* BrowserPool

AvailableEngines == {available[i].eng : i \in 1..Len(available)}
PoolEngines == Range(in_use) \cup AvailableEngines

\* A newly constructed object is distinct from every object the pool refers to.
FreshEngine == CHOOSE e \in Engines \ PoolEngines : \A f \in Engines \ PoolEngines : e <= f

\* An event of a pool call.  A close event records whether the engine held a page or a
\* display, i.e. whether close() reached page.quit() or display.stop().
Ev(kind, e) ==
    [ev |-> kind, eng |-> e,
     live |-> kind = "close" /\ (mgr[e].page # NoPage \/ mgr[e].display # "none")]
Call(op, u, ret, path, page, prevKept) ==
    [op |-> op, user |-> u, ret |-> ret, path |-> path, page |-> page, prevKept |-> prevKept]

\* The engine a release(u, keep_alive=True) put back, when it was the call just before.
KeptBy(u) ==
    IF last.op = "release" /\ last.user = u /\ last.path = "kept" THEN last.ret ELSE NoEngine

\* acquire, line 47
AlreadyCheckedOut_never(u) == FALSE
AlreadyCheckedOut(u) == u \in DOMAIN in_use

\* acquire, line 49: return self.in_use[user_id]
ReturnExisting_new(u) == FreshEngine
ReturnExisting(u) == in_use[u]

\* acquire, line 53: available.pop(0), the head of the list
PopIndex_tail == Len(available)
PopIndex == 1

\* acquire, line 63
UnderLimit_inclusive(n) == n <= max_size
UnderLimit(n) == n < max_size

\* release, line 87
MayKeep_anyway(keep_alive) == Len(available) < max_size
MayKeep(keep_alive) == keep_alive /\ Len(available) < max_size

LogAcquire(u, ret) ==
    IF acqLog.live /\ \A i \in 1..Len(acqLog.calls) : acqLog.calls[i].user # u
    THEN [live |-> TRUE, calls |-> Append(acqLog.calls, [user |-> u, ret |-> ret])]
    ELSE [live |-> FALSE, calls |-> <<>>]
LogOther == [live |-> FALSE, calls |-> <<>>]

\* BrowserPool.acquire(user_id)
acquire(u) ==
    /\ trace' = <<Ev("lock", NoEngine), Ev("unlock", NoEngine)>>
    /\ now' = now /\ isLinux' = isLinux
    /\ IF AlreadyCheckedOut(u)
       THEN /\ Len(out[u]) < MaxHandles
            /\ last' = Call("acquire", u, ReturnExisting(u), "in_use", NoPage, KeptBy(u))
            /\ out' = [out EXCEPT ![u] = Append(@, ReturnExisting(u))]
            /\ acqLog' = LogAcquire(u, ReturnExisting(u))
            /\ UNCHANGED <<in_use, available, mgr>>
       ELSE IF available # <<>>
       THEN LET e == available[PopIndex].eng IN
            /\ available' = [i \in 1..(Len(available) - 1) |->
                                IF i < PopIndex THEN available[i] ELSE available[i + 1]]
            /\ mgr' = [mgr EXCEPT ![e].user_id = u, ![e].user_data_dir = PoolDir(u)]
            /\ in_use' = (u :> e) @@ in_use
            /\ last' = Call("acquire", u, e, "warm", NoPage, KeptBy(u))
            /\ out' = [out EXCEPT ![u] = <<e>>]
            /\ acqLog' = LogAcquire(u, e)
       ELSE IF UnderLimit(Cardinality(DOMAIN in_use))
       THEN LET e == FreshEngine IN
            /\ mgr' = [mgr EXCEPT ![e] = NewManager(u)]
            /\ in_use' = (u :> e) @@ in_use
            /\ last' = Call("acquire", u, e, "new", NoPage, KeptBy(u))
            /\ out' = [out EXCEPT ![u] = <<e>>]
            /\ acqLog' = LogAcquire(u, e)
            /\ UNCHANGED available
       ELSE /\ last' = Call("acquire", u, NoEngine, "exhausted", NoPage, KeptBy(u))
            /\ acqLog' = LogAcquire(u, NoEngine)
            /\ UNCHANGED <<in_use, available, mgr, out>>

\* BrowserPool.release(user_id, keep_alive)
release(u, keep_alive) ==
    /\ now' = now /\ isLinux' = isLinux
    /\ acqLog' = LogOther
    /\ IF u \notin DOMAIN in_use
       THEN /\ trace' = <<Ev("lock", NoEngine), Ev("unlock", NoEngine)>>
            /\ last' = Call("release", u, NoEngine, "absent", NoPage, NoEngine)
            /\ UNCHANGED <<in_use, available, mgr, out>>
       ELSE LET e == in_use[u] IN
            /\ in_use' = Without(in_use, u)
            /\ out' = [out EXCEPT ![u] = <<>>]
            /\ IF MayKeep(keep_alive)
               THEN /\ available' = Append(available, [eng |-> e, last_used |-> now])
                    /\ trace' = <<Ev("lock", NoEngine), Ev("unlock", NoEngine)>>
                    /\ last' = Call("release", u, e, "kept", NoPage, NoEngine)
                    /\ mgr' = mgr
               ELSE /\ available' = available
                    /\ trace' = <<Ev("lock", NoEngine), Ev("close", e), Ev("unlock", NoEngine)>>
                    /\ last' = Call("release", u, e, "closed", NoPage, NoEngine)
                    /\ mgr' = [mgr EXCEPT ![e] = NoManager]

\* cleanup_idle, line 111
IsIdle_inclusive(entry, idle_timeout) == now - entry.last_used >= idle_timeout
IsIdle(entry, idle_timeout) == now - entry.last_used > idle_timeout

\* SelectSeq without a LAMBDA: the entries of s, in order, that are not in drop.
RECURSIVE KeepOrder(_, _)
KeepOrder(s, drop) ==
    IF s = <<>> THEN <<>>
    ELSE IF Head(s) \in drop THEN KeepOrder(Tail(s), drop)
    ELSE <<Head(s)>> \o KeepOrder(Tail(s), drop)

\* The close events of a loop over the entries of s that are in sel, in list order.
RECURSIVE CloseEvents(_, _)
CloseEvents(s, sel) ==
    IF s = <<>> THEN <<>>
    ELSE IF Head(s) \in sel THEN <<Ev("close", Head(s).eng)>> \o CloseEvents(Tail(s), sel)
    ELSE CloseEvents(Tail(s), sel)

\* BrowserPool.cleanup_idle(idle_timeout)
cleanup_idle(idle_timeout) ==
    LET idle == {available[i] : i \in {j \in 1..Len(available) : IsIdle(available[j], idle_timeout)}}
    IN  /\ available' = KeepOrder(available, idle)
        /\ mgr' = [e \in Engines |-> IF e \in {x.eng : x \in idle} THEN NoManager ELSE mgr[e]]
        /\ trace' = <<Ev("lock", NoEngine)>> \o CloseEvents(available, idle)
                        \o <<Ev("unlock", NoEngine)>>
        /\ last' = Call("cleanup_idle", 0, NoEngine, "none", NoPage, NoEngine)
        /\ acqLog' = LogOther
        /\ UNCHANGED <<isLinux, in_use, now, out>>

\* The engines of in_use.values(), in the dict's insertion order, as a list.
RECURSIVE InUseList(_)
InUseList(us) ==
    IF us = {} THEN <<>>
    ELSE LET u == CHOOSE x \in us : \A y \in us : x <= y
         IN  <<[eng |-> in_use[u], last_used |-> 0]>> \o InUseList(us \ {u})

\* BrowserPool.close_all()
close_all ==
    /\ trace' = <<Ev("lock", NoEngine)>>
                    \o CloseEvents(available, Range(available))
                    \o CloseEvents(InUseList(DOMAIN in_use), Range(InUseList(DOMAIN in_use)))
                    \o <<Ev("unlock", NoEngine)>>
    /\ available' = <<>>
    /\ in_use' = <<>>
    /\ mgr' = [e \in Engines |-> NoManager]
    /\ out' = [u \in Users |-> <<>>]
    /\ last' = Call("close_all", 0, NoEngine, "none", NoPage, NoEngine)
    /\ acqLog' = LogOther
    /\ UNCHANGED <<isLinux, now>>

\* A caller that holds user u's engine calls start_browser on it.
engine_start_browser(u, probe, disp, launch) ==
    LET e == in_use[u]
        r == start_browser(mgr[e], isLinux, probe, disp, launch)
    IN  /\ mgr' = [mgr EXCEPT ![e] = r.m]
        /\ last' = Call("start_browser", u, e, IF r.raised THEN "raised" ELSE "page",
                        r.ret, NoEngine)
        /\ UNCHANGED <<isLinux, in_use, available, now, out, acqLog, trace>>

\* QR requests and status polls of one user that overlap.  The endpoints are
\* coroutines: each runs without a break up to its next await, and the
\* manager's methods run on executor threads beside the event loop.  A manager
\* is named by the request that constructed it.

Reqs == 1..NumReqs
Polls == 1..NumPolls

NoReq ==
    [pc |-> "idle", th |-> "none", result |-> "none", res |-> "none", over |-> FALSE,
     prior |-> 0, priorClosed |-> FALSE, rm |-> 0, finReg |-> 0, finClosed |-> FALSE]

NoPollRun ==
    [pc |-> "idle", m |-> 0, seen |-> FALSE, cookies |-> "unread", late |-> FALSE,
     res |-> "none", removed |-> FALSE]

OverIdle ==
    /\ o_reg = 0
    /\ o_live = {}
    /\ o_closed = {}
    /\ o_req = [i \in Reqs |-> NoReq]
    /\ o_poll = [k \in Polls |-> NoPollRun]

\* The requests between their await and their response.
InFlight == {j \in Reqs : o_req[j].pc = "await"}

\* main.py line 325: result.get("status") == "error"
IsError_never(result) == FALSE
IsError(result) == result = "error"

\* main.py lines 288-311, up to the await: an older session of the user is
\* closed and deleted, the new manager is constructed and registered, and
\* get_login_qrcode is handed to the executor.
R_Begin(i) ==
    /\ o_req[i].pc = "idle"
    /\ \A j \in Reqs : j < i => o_req[j].pc # "idle"
    /\ o_live' = o_live \ {o_reg}
    /\ o_closed' = IF o_reg # 0 THEN o_closed \cup {o_reg} ELSE o_closed
    /\ o_reg' = i
    /\ o_req' = [j \in Reqs |->
                    IF j = i
                    THEN [o_req[j] EXCEPT !.pc = "await", !.th = "starting",
                                          !.over = InFlight # {},
                                          !.prior = o_reg,
                                          !.priorClosed = (o_reg # 0 /\ o_reg \notin o_live')]
                    ELSE IF j \in InFlight THEN [o_req[j] EXCEPT !.over = TRUE]
                    ELSE o_req[j]]
    /\ UNCHANGED o_poll

\* The executor thread inside start_browser, browser.py lines 60-118: the browser
\* is launched and self.page set, whatever close() did to the manager before;
\* a failed launch leaves no page, and get_login_qrcode answers with an error.
R_Launch(i, launch) ==
    /\ o_req[i].th = "starting"
    /\ IF launch = "ok"
       THEN /\ o_live' = o_live \cup {i}
            /\ o_req' = [o_req EXCEPT ![i].th = "browsing"]
       ELSE /\ o_live' = o_live
            /\ o_req' = [o_req EXCEPT ![i].th = "returned", ![i].result = "error"]
    /\ UNCHANGED <<o_reg, o_closed, o_poll>>

\* get_login_qrcode returns, browser.py lines 130, 404-509: with a page it answers
\* logged_in, waiting_scan or error, or the call raises; a manager closed under
\* it has no page left and answers with the error status.
R_Return(i, result) ==
    /\ o_req[i].th = "browsing"
    /\ result \in (IF i \in o_live THEN {"waiting_scan", "logged_in", "error", "raise"}
                   ELSE {"error", "raise"})
    /\ o_req' = [o_req EXCEPT ![i].th = "returned", ![i].result = result]
    /\ UNCHANGED <<o_reg, o_live, o_closed, o_poll>>

\* manager.close() and del login_sessions[request.user_id], main.py lines 316-317,
\* 321-322 and 327-328: the manager is the request's own, the entry deleted is
\* whatever the key holds, and a missing key raises KeyError out of the endpoint.
Cleanup(i, status) ==
    /\ o_live' = o_live \ {i}
    /\ o_closed' = o_closed \cup {i}
    /\ o_reg' = 0
    /\ o_req' = [o_req EXCEPT ![i].pc = "done",
                              ![i].res = IF o_reg = 0 THEN "KeyError" ELSE status,
                              ![i].rm = o_reg,
                              ![i].finReg = 0,
                              ![i].finClosed = (i \in o_closed' /\ i \notin o_live')]
    /\ UNCHANGED o_poll

\* asyncio.wait_for gives up after 90 seconds, main.py lines 314-318; the executor
\* thread is not interrupted.
R_Timeout(i) ==
    /\ o_req[i].pc = "await"
    /\ o_req[i].th \in {"starting", "browsing"}
    /\ Cleanup(i, "504")

\* The await returns with the thread's result or its exception, main.py lines
\* 304-312 and 319-331.
R_Finish(i) ==
    /\ o_req[i].pc = "await"
    /\ o_req[i].th = "returned"
    /\ IF o_req[i].result = "raise" \/ IsError(o_req[i].result)
       THEN Cleanup(i, "500")
       ELSE /\ o_req' = [o_req EXCEPT ![i].pc = "done",
                                      ![i].res = o_req[i].result,
                                      ![i].finReg = o_reg,
                                      ![i].finClosed = i \in o_closed]
            /\ UNCHANGED <<o_reg, o_live, o_closed, o_poll>>

\* GET /api/v1/login/status, main.py lines 344-347: the membership test and the
\* fetch of the manager, up to the first await.
P_Begin(k) ==
    /\ o_poll[k].pc = "idle"
    /\ \A j \in Polls : j < k => o_poll[j].pc # "idle"
    /\ IF o_reg = 0
       THEN o_poll' = [o_poll EXCEPT ![k].pc = "done", ![k].res = "404"]
       ELSE o_poll' = [o_poll EXCEPT ![k].pc = "check", ![k].m = o_reg]
    /\ UNCHANGED <<o_reg, o_live, o_closed, o_req>>

\* manager.check_login_status on an executor thread, browser.py lines 511-542:
\* False without a page, else what the site shows.
P_Check(k, seen) ==
    /\ o_poll[k].pc = "check"
    /\ seen \in (IF o_poll[k].m \in o_live THEN BOOLEAN ELSE {FALSE})
    /\ IF seen
       THEN o_poll' = [o_poll EXCEPT ![k].pc = "export", ![k].seen = TRUE]
       ELSE o_poll' = [o_poll EXCEPT ![k].pc = "done", ![k].res = "waiting"]
    /\ UNCHANGED <<o_reg, o_live, o_closed, o_req>>

\* manager.get_cookies on an executor thread, browser.py lines 549-550: None
\* without a page.
P_Export(k) ==
    /\ o_poll[k].pc = "export"
    /\ IF o_poll[k].m \in o_live
       THEN o_poll' = [o_poll EXCEPT ![k].pc = "reading"]
       ELSE o_poll' = [o_poll EXCEPT ![k].pc = "finish", ![k].cookies = "none"]
    /\ UNCHANGED <<o_reg, o_live, o_closed, o_req>>

\* browser.py lines 551-556: self.page.cookies(); on a browser closed since the
\* test of self.page the call fails and None is returned.
P_Read(k, jar) ==
    /\ o_poll[k].pc = "reading"
    /\ IF o_poll[k].m \in o_live
       THEN o_poll' = [o_poll EXCEPT ![k].pc = "finish", ![k].cookies = jar]
       ELSE o_poll' = [o_poll EXCEPT ![k].pc = "finish", ![k].cookies = "none",
                                     ![k].late = TRUE]
    /\ UNCHANGED <<o_reg, o_live, o_closed, o_req>>

\* main.py lines 355-371: manager.close(), del login_sessions[user_id] and the
\* response; a missing key raises KeyError out of the endpoint.
P_Finish(k) ==
    /\ o_poll[k].pc = "finish"
    /\ o_live' = o_live \ {o_poll[k].m}
    /\ o_closed' = o_closed \cup {o_poll[k].m}
    /\ o_reg' = 0
    /\ o_poll' = [o_poll EXCEPT ![k].pc = "done",
                                ![k].removed = o_reg # 0,
                                ![k].res = IF o_reg = 0 THEN "KeyError"
                                           ELSE IF o_poll[k].cookies = "some" THEN "success"
                                           ELSE "success_no_cookies"]
    /\ UNCHANGED o_req

\* BrowserPool(max_size), nothing acquired yet.
PoolEmpty ==
    /\ in_use = <<>>
    /\ available = <<>>
    /\ mgr = [e \in Engines |-> NoManager]
    /\ now = 0
    /\ out = [u \in Users |-> <<>>]
    /\ acqLog = [live |-> TRUE, calls |-> <<>>]
    /\ last = Call("init", 0, NoEngine, "none", NoPage, NoEngine)
    /\ trace = <<>>

IdleTimeouts == {0, 1}

Acquire == (\E u \in Users : acquire(u)) /\ UNCHANGED <<pubVars, loginVars, qrVars, sessVars, admVars, capVars, profVars, overVars>>
Release == (\E u \in Users, keep_alive \in BOOLEAN : release(u, keep_alive)) /\ UNCHANGED <<pubVars, loginVars, qrVars, sessVars, admVars, capVars, profVars, overVars>>
CleanupIdle == (\E t \in IdleTimeouts : cleanup_idle(t)) /\ UNCHANGED <<pubVars, loginVars, qrVars, sessVars, admVars, capVars, profVars, overVars>>
CloseAll == close_all /\ UNCHANGED <<pubVars, loginVars, qrVars, sessVars, admVars, capVars, profVars, overVars>>
StartBrowser ==
    /\ \E u \in DOMAIN in_use, probe \in ProbeOutcomes, disp \in CallOutcomes, launch \in CallOutcomes :
          engine_start_browser(u, probe, disp, launch)
    /\ UNCHANGED <<pubVars, loginVars, qrVars, sessVars, admVars, capVars, profVars, overVars>>
\* time.time() advances between calls.
Tick ==
    /\ now < MaxTime
    /\ now' = now + 1
    /\ UNCHANGED <<isLinux, in_use, available, mgr, out, acqLog, last, trace>>
    /\ UNCHANGED <<pubVars, loginVars, qrVars, sessVars, admVars, capVars, profVars, overVars>>

PoolInit == isLinux \in BOOLEAN /\ PoolEmpty /\ PubIdle /\ LoginIdle /\ QrIdle /\ SessIdle /\ AdmIdle /\ CapIdle /\ ProfIdle /\ OverIdle

\* The pool's own calls, as time passes.
PoolNext == Acquire \/ Release \/ CleanupIdle \/ CloseAll \/ Tick

SpecPool == PoolInit /\ [][PoolNext]_vars

\* The pool with callers that start browsers on the engines they hold.
WarmNext == Acquire \/ Release \/ CloseAll \/ StartBrowser

SpecWarm == PoolInit /\ [][WarmNext]_vars

PublishInit == isLinux \in BOOLEAN /\ PoolEmpty /\ PubStart /\ LoginIdle /\ QrIdle /\ SessIdle /\ AdmIdle /\ CapIdle /\ ProfIdle /\ OverIdle

PublishNext ==
    \/ P_StartBrowser \/ P_GetCreator \/ P_Cookies \/ P_CheckLogin \/ P_GetPublish
    \/ P_Tab \/ P_FindUpload \/ P_Upload \/ P_WaitUpload \/ P_Fill \/ P_Submit
    \/ P_Except \/ P_Finally

SpecPublish == PublishInit /\ [][PublishNext]_vars

LoginInit == isLinux \in BOOLEAN /\ PoolEmpty /\ PubIdle /\ LoginIdle /\ QrIdle /\ SessIdle /\ AdmIdle /\ CapIdle /\ ProfIdle /\ OverIdle

LoginNext == L_RequestQr \/ L_Poll \/ L_Scan \/ L_Tick

SpecLogin == LoginInit /\ [][LoginNext]_vars

QrInit == isLinux \in BOOLEAN /\ PoolEmpty /\ PubIdle /\ LoginIdle /\ QrStart /\ SessIdle /\ AdmIdle /\ CapIdle /\ ProfIdle /\ OverIdle

QrNext ==
    \/ Q_StartBrowser \/ Q_QuickCheck \/ Q_CheckHome \/ Q_ProbeQr
    \/ Q_Strategy4 \/ Q_Line216 \/ Q_Detect \/ Q_Except

SpecQr == QrInit /\ [][QrNext]_vars

SessInit == isLinux \in BOOLEAN /\ PoolEmpty /\ PubIdle /\ LoginIdle /\ QrIdle /\ SessStart /\ AdmIdle /\ CapIdle /\ ProfIdle /\ OverIdle

SessNext ==
    \/ S_Call \/ S_Probe \/ S_Wipe \/ S_DisplayStop \/ S_DisplayStart \/ S_Launch
    \/ S_Close \/ S_Timeout

SpecSession == SessInit /\ [][SessNext]_vars

AdmInit ==
    isLinux \in BOOLEAN /\ PoolEmpty /\ PubIdle /\ LoginIdle /\ QrIdle /\ SessIdle /\ AdmIdle /\ CapIdle /\ ProfIdle /\ OverIdle

AdmNext ==
    \/ A_Submit \/ A_Admit \/ A_Download \/ A_StartPublish \/ A_EndPublish
    \/ A_LoginStart \/ A_LoginEnd

SpecAdmission == AdmInit /\ [][AdmNext]_vars

\* Admission where every admitted run goes on to its end and the semaphore
\* wakes a waiter whenever a place is free (asyncio.Semaphore serves its
\* waiters in arrival order).
AdmFair ==
    /\ WF_vars(A_Admit) /\ WF_vars(A_Download)
    /\ WF_vars(A_StartPublish) /\ WF_vars(A_EndPublish)

SpecAdmissionFair == AdmInit /\ [][AdmNext]_vars /\ AdmFair

\* The QR capture step over every page of at most MaxElems elements; the step
\* does not read the platform.
CapInit ==
    isLinux = TRUE /\ PoolEmpty /\ PubIdle /\ LoginIdle /\ QrIdle /\ SessIdle /\ AdmIdle
    /\ CapStart /\ ProfIdle /\ OverIdle

CapNext == Cap_Search \/ Cap_Shoot

SpecCapture == CapInit /\ [][CapNext]_vars

\* Login sessions, publish tasks and the endpoints that delete directories.
ProfInit ==
    isLinux \in BOOLEAN /\ PoolEmpty /\ PubIdle /\ LoginIdle /\ QrIdle /\ SessIdle /\ AdmIdle
    /\ CapIdle /\ ProfIdle /\ OverIdle

ProfNext ==
    \/ D_RequestQr \/ D_StatusSuccess \/ D_CloseSession
    \/ D_TaskConstruct \/ D_TaskStart \/ D_TaskEnd \/ D_CleanupUserData

SpecProfiles == ProfInit /\ [][ProfNext]_vars

\* Overlapping QR requests of one user, and the threads they started.
ReqInit ==
    isLinux \in BOOLEAN /\ PoolEmpty /\ PubIdle /\ LoginIdle /\ QrIdle /\ SessIdle /\ AdmIdle
    /\ CapIdle /\ ProfIdle /\ OverIdle

OverFrame == UNCHANGED <<poolVars, pubVars, loginVars, qrVars, sessVars, admVars, capVars, profVars>>

O_BeginQr == (\E i \in Reqs : R_Begin(i)) /\ OverFrame
O_Launch == (\E i \in Reqs, launch \in CallOutcomes : R_Launch(i, launch)) /\ OverFrame
O_Return == (\E i \in Reqs, result \in {"waiting_scan", "logged_in", "error", "raise"} : R_Return(i, result)) /\ OverFrame
O_Timeout == (\E i \in Reqs : R_Timeout(i)) /\ OverFrame
O_FinishQr == (\E i \in Reqs : R_Finish(i)) /\ OverFrame

ReqNext == O_BeginQr \/ O_Launch \/ O_Return \/ O_Timeout \/ O_FinishQr

SpecRequests == ReqInit /\ [][ReqNext]_vars

\* Overlapping status polls of one user whose QR request answered waiting_scan.
PollInit ==
    /\ isLinux \in BOOLEAN /\ PoolEmpty /\ PubIdle /\ LoginIdle /\ QrIdle /\ SessIdle /\ AdmIdle
    /\ CapIdle /\ ProfIdle
    /\ o_reg = 1
    /\ o_live = {1}
    /\ o_closed = {}
    /\ o_req = [i \in Reqs |->
                   IF i = 1
                   THEN [NoReq EXCEPT !.pc = "done", !.th = "returned",
                                      !.result = "waiting_scan", !.res = "waiting_scan",
                                      !.finReg = 1]
                   ELSE NoReq]
    /\ o_poll = [k \in Polls |-> NoPollRun]

O_BeginPoll == (\E k \in Polls : P_Begin(k)) /\ OverFrame
O_Check == (\E k \in Polls, seen \in BOOLEAN : P_Check(k, seen)) /\ OverFrame
O_Export == (\E k \in Polls : P_Export(k)) /\ OverFrame
O_Read == (\E k \in Polls, jar \in {"some", "none"} : P_Read(k, jar)) /\ OverFrame
O_FinishPoll == (\E k \in Polls : P_Finish(k)) /\ OverFrame

PollNext == O_BeginPoll \/ O_Check \/ O_Export \/ O_Read \/ O_FinishPoll

SpecPolls == PollInit /\ [][PollNext]_vars

----------------------------------------------------------------------------
\* Pool claims

\* C1: starting from the empty pool, acquire() calls with pairwise distinct user IDs
\* succeed with pairwise distinct engines up to max_size of them; the next one, made
\* while those max_size engines are checked out, gets the pool-exhausted error at once
\* and leaves nothing behind in the pool (nothing is queued).
C1_DistinctAcquires ==
    acqLog.live =>
        /\ \A i \in 1..Len(acqLog.calls) :
              IF i <= max_size
              THEN /\ acqLog.calls[i].ret \in Engines
                   /\ in_use[acqLog.calls[i].user] = acqLog.calls[i].ret
                   /\ \A j \in 1..(i - 1) : acqLog.calls[j].ret # acqLog.calls[i].ret
              ELSE /\ acqLog.calls[i].ret = NoEngine
                   /\ acqLog.calls[i].user \notin DOMAIN in_use
        /\ available = <<>>
        /\ Cardinality(DOMAIN in_use) <= max_size

C1_Witness ==
    /\ acqLog.live
    /\ Len(acqLog.calls) = max_size + 1
    /\ last.op = "acquire" /\ last.path = "exhausted"

\* C2: an acquire(u) made while u's engine is checked out returns that engine,
\* constructs no engine and leaves the engines the pool owns as they were.
C2_SecondAcquireSameEngine ==
    [][\A u \in Users :
          (u \in DOMAIN in_use /\ acquire(u)) =>
              /\ last'.ret = in_use[u]
              /\ in_use' = in_use
              /\ available' = available
              /\ mgr' = mgr]_vars

C2_Witness ==
    /\ last.op = "acquire" /\ last.path = "in_use"
    /\ last.ret = in_use[last.user]
    /\ Len(out[last.user]) = 2

\* C3 as stated: release(u, keep_alive=True) immediately followed by acquire(u)
\* returns the engine that was released, whatever else waits in the available list.
C3_Original ==
    (last.op = "acquire" /\ last.prevKept # NoEngine) => last.ret = last.prevKept

\* C3 amended: release(u, keep_alive=True) immediately followed by acquire(u) returns
\* the head of the available list: the released engine when no other engine was
\* waiting, and otherwise the longest-waiting engine, the released one staying last
\* in the list.
C3_WarmReuseHead ==
    (last.op = "acquire" /\ last.prevKept # NoEngine) =>
        /\ last.path = "warm"
        /\ IF available = <<>>
           THEN last.ret = last.prevKept
           ELSE /\ last.ret # last.prevKept
                /\ available[Len(available)].eng = last.prevKept

C3_Witness ==
    /\ last.op = "acquire" /\ last.prevKept # NoEngine
    /\ last.ret = last.prevKept
    /\ in_use[last.user] = last.prevKept

\* C4: a page that a user obtains through start_browser from a pooled engine runs on
\* a profile directory of that user, never on one a browser was launched on for
\* another user.
C4_OwnProfile ==
    (last.op = "start_browser" /\ last.path = "page") => last.page[1][2] = last.user

\* C5 as stated: a second acquire for a checked-out user is refused, so no two
\* callers hold the user's engine at the same time.
C5_Original ==
    /\ \A u \in Users : Len(out[u]) <= 1
    /\ (last.op = "acquire" /\ last.path = "in_use") => last.ret = NoEngine

\* C5 amended: a second acquire for a checked-out user is not refused, it is handed
\* the engine checked out for that user, so several callers can hold it at once; the
\* pool guarantees one engine per user ID: every handle given out for u since u's
\* checkout is the engine in_use[u].
C5_OneEnginePerUser ==
    /\ \A u \in Users :
          IF u \in DOMAIN in_use
          THEN /\ out[u] # <<>>
               /\ \A i \in 1..Len(out[u]) : out[u][i] = in_use[u]
          ELSE out[u] = <<>>
    /\ (last.op = "acquire" /\ last.path = "in_use") => last.ret \in Engines

C5_Witness ==
    \E u \in DOMAIN in_use :
        /\ Len(out[u]) = 2
        /\ last.op = "acquire" /\ last.user = u /\ last.path = "in_use"

\* Whether the pool lock is held when event i of the call runs.
LockHeldAt(i) ==
    Cardinality({j \in 1..(i - 1) : trace[j].ev = "lock"})
        > Cardinality({j \in 1..(i - 1) : trace[j].ev = "unlock"})

\* C6: no close() that reaches the browser (page.quit(), display.stop()) runs while
\* the pool lock is held.
C6_NoCloseUnderLock ==
    \A i \in 1..Len(trace) : (trace[i].ev = "close" /\ trace[i].live) => ~LockHeldAt(i)

----------------------------------------------------------------------------
\* Publish claims

Count(x) == Cardinality({i \in 1..Len(p_log) : p_log[i] = x})

C8_LoginRedirect ==
    (p_pc = "done" /\ Count("login_url") > 0) =>
        /\ p_ret = Ret("return", FALSE, "Cookie expired or not logged in")
        /\ Count("get_publish") = 0 /\ Count("upload") = 0 /\ Count("click") = 0
        /\ p_disk \cap p_task.files = {}

\* C9: when publish_content has finished, on any exit path, the page and display
\* handles are None, every browser process the run launched has been quit and
\* every display it created has been stopped.
C9_Released ==
    p_pc = "done" =>
        /\ p_mgr.page = NoPage
        /\ p_mgr.display = "none"
        /\ Count("quit") = Count("launch")
        /\ Count("display_stop") = Count("display")

C9_Witness ==
    /\ p_pc = "done"
    /\ p_ret.kind = "raise"
    /\ Count("launch") = 1 /\ Count("display") = 1

----------------------------------------------------------------------------
\* Login claims

\* C10: a status poll made for a login attempt after its deadline (LoginTTL seconds
\* from the QR request) reports expired, never waiting or success.
C10_ExpiredAfterDeadline ==
    (l_last.op = "status" /\ l_last.status # "404" /\ l_last.late) => l_last.status = "expired"

\* C11: check_login_status returns logged-in only when the cookie jar holds the
\* web_session cookie and the navigation to the protected area, if one was made,
\* did not end on a login page or fail.
C11_CookieAndConfirmation ==
    (l_chk.user # 0 /\ l_chk.ret) => (l_chk.cookie /\ l_chk.nav \notin {"login", "raise"})

\* C12: when the session's cookie jar holds web_session and the navigation to
\* creator/home is redirected to login or fails, check_login_status returns False,
\* and the status endpoint answers waiting, calls neither get_cookies nor close()
\* and leaves the session, with its page, in login_sessions.
C12_StaleCookieNotLoggedIn ==
    (l_chk.user # 0 /\ l_chk.cookie /\ l_chk.nav \in {"login", "raise"}) =>
        /\ ~l_chk.ret
        /\ l_last = Resp("status", l_chk.user, "waiting", l_last.late)
        /\ ~l_chk.exported /\ ~l_chk.closed
        /\ l_chk.user \in DOMAIN login_sessions
        /\ login_sessions[l_chk.user].page # NoPage

C12_Witness ==
    /\ l_chk.user # 0 /\ l_chk.cookie /\ l_chk.nav = "login"
    /\ l_last.status = "waiting"
    /\ l_site[l_chk.user] = Site("login", TRUE)
    /\ l_chk.user \in DOMAIN login_sessions

----------------------------------------------------------------------------
\* QR-login claims

QHas(x) == \E i \in 1..Len(q_log) : q_log[i] = x

\* The calls of the mode switch and of the QR capture.
QrLogic ==
    {"probe_present", "probe_absent", "find_sms", "svg_click", "js_click",
     "strategy6", "strategy7", "strategy8", "detect", "emergency_shot"}

\* C13: when the navigation to the login page has landed on creator/home,
\* get_login_qrcode returns status logged_in, and the call has run no switch
\* strategy and no QR capture; it returns logged_in in no other case.
C13_ShortCircuit ==
    /\ (q_pc = "done" /\ QHas("at_home")) =>
          /\ q_ret = Result("logged_in", "none")
          /\ \A x \in QrLogic : ~QHas(x)
    /\ q_ret.status = "logged_in" => QHas("at_home")

C13_Witness ==
    /\ q_pc = "done"
    /\ QHas("goto_login") /\ QHas("at_home")
    /\ q_ret.status = "logged_in"

\* C14: when the first probe finds no QR code and one is on the page after the
\* corner icon found through the SMS anchor text was clicked, get_login_qrcode
\* returns waiting_scan with an image taken by the QR capture step, and runs no
\* later switch strategy.
C14_SwitchThenCapture ==
    (q_pc = "done" /\ QHas("probe_absent") /\ QHas("svg_click") /\ q_page.qr) =>
        /\ q_ret.status = "waiting_scan"
        /\ q_ret.src \in {"img_src", "qr_box", "fallback"}
        /\ \A x \in {"js_click", "strategy6", "strategy7", "strategy8"} : ~QHas(x)

----------------------------------------------------------------------------
\* Session claims

\* C15: once the endpoint has handled the timeout of a QR request, the manager's
\* browser process and display are released and stay released: no process and no
\* display of the session runs, and its handles are None.
C15_TeardownSticks ==
    s_reg = "timed_out" =>
        /\ s_procs = {} /\ s_disps = {}
        /\ s_mgr.page = NoPage /\ s_mgr.display = "none"

\* C18: a BrowserManager has at most one running browser process at any time,
\* whatever sequence of start_browser and close calls its holder makes.
C18_OneProcess ==
    s_reg = "held" => Cardinality(s_procs) <= 1

\* C19: in a cold start, when the profile directory is wiped no process the
\* manager launched before is running and no display it started before is
\* running: the old ones are released first.
C19_ReleaseBeforeWipe ==
    s_reg = "held" =>
        \A i \in 1..Len(s_ev) :
            s_ev[i].ev = "wipe" => (s_ev[i].procs = {} /\ s_ev[i].disps = {})

\* C20: a start_browser call whose existing page handle answers the liveness
\* probe returns that handle, and wipes nothing, starts or stops no display and
\* launches no process: manager, processes and displays are as before the call.
C20_WarmReuseFrame ==
    (s_pc = "idle" /\ s_last.probe = "alive") =>
        /\ s_last.kind = "reuse"
        /\ s_last.page = s_last.before.mgr.page
        /\ s_ev = <<>>
        /\ s_mgr = s_last.before.mgr
        /\ s_procs = s_last.before.procs
        /\ s_disps = s_last.before.disps

C20_Witness ==
    /\ s_pc = "idle" /\ s_last.kind = "reuse" /\ s_last.probe = "alive"
    /\ s_calls >= 2
    /\ s_last.page # NoPage /\ s_ref.pid \in s_procs

----------------------------------------------------------------------------
\* Admission claims

\* C16: at every moment at most AdmissionLimit background_publisher bodies are
\* past admission (downloading or publishing), however many publish requests are
\* queued and however many login sessions exist; the semaphore's value is the
\* number of free places.
C16_PipelinesBounded ==
    /\ Cardinality(Admitted) <= AdmissionLimit
    /\ a_sem = AdmissionLimit - Cardinality(Admitted)

C16_Witness ==
    /\ Cardinality(Admitted) = AdmissionLimit
    /\ \E t \in Tasks : a_task[t] = "queued"
    /\ a_login = LoginUsers

\* C17: at every moment the number of engines with a running browser process,
\* those of login sessions and those of publish tasks together, is at most
\* AdmissionLimit.
C17_EnginesBounded ==
    LiveEngines <= AdmissionLimit

----------------------------------------------------------------------------
\* Claims C21 to C30

LaunchTries == Cardinality({i \in 1..Len(s_ev) : s_ev[i].ev \in {"launch", "launch_failed"}})

\* C21: start_browser ends with a browser-initialisation error only after two
\* launches have been tried, the second in the other configuration.
C21_BothConfigurationsTried ==
    (s_pc = "idle" /\ s_last.kind = "raised"
        /\ \E i \in 1..Len(s_ev) : s_ev[i].ev = "launch_failed") => LaunchTries >= 2

\* C22: publish_content ends by returning an (ok, message) pair on every path,
\* also when a browser call fails inside the except clause: it never raises.
C22_StructuredResult ==
    p_pc = "done" => (p_ret.kind = "return" /\ p_ret.msg # "")

\* C24: after close() the page and display handles are None and no exception has
\* left the call, also when page.quit() or display.stop() raised; a second close()
\* in a row calls neither, raises nothing and changes nothing.
C24_CloseIdempotent ==
    (s_reg = "held" /\ s_close.n >= 1) =>
        /\ ~s_close.raised
        /\ s_mgr.page = NoPage /\ s_mgr.display = "none"
        /\ s_mgr = close(s_close.before.mgr)
        /\ s_close.n = 2 =>
              /\ ~s_close.quit /\ ~s_close.stop
              /\ s_mgr = s_close.before.mgr
              /\ s_procs = s_close.before.procs
              /\ s_disps = s_close.before.disps

C24_Witness ==
    /\ s_reg = "held" /\ s_close.n = 2 /\ s_close.failed
    /\ s_mgr.page = NoPage /\ s_mgr.display = "none"

\* The position of a call in the log of a QR request, 0 when it was not made.
QAt(x) == IF QHas(x) THEN CHOOSE i \in 1..Len(q_log) : q_log[i] = x ELSE 0

\* C29: when the first probe finds no QR code, the flow goes on to the QR
\* capture whatever the switch strategies did; the strategies run in their fixed
\* order, and the later group (6, 7, 8) runs only when the corner click was not
\* made.
C29_StrategiesInOrderThenCapture ==
    (q_pc = "done" /\ QHas("probe_absent")) =>
        /\ QHas("detect")
        /\ QAt("find_sms") < QAt("detect")
        /\ QHas("strategy6") => (~QHas("svg_click") /\ QAt("find_sms") < QAt("strategy6"))

\* The place of a strategy in Order.
Place(st) == CHOOSE k \in 1..Len(Order) : Order[k] = st

\* An element a strategy could accept: it is among the strategy's candidates and
\* (for the first strategy) its src holds the image bytes.
Offers(st, i) ==
    /\ \E j \in 1..Len(Candidates(st, cap_page)) : Candidates(st, cap_page)[j] = i
    /\ st = "img_b64" => cap_page[i].src = "b64"

Big(i) == cap_page[i].w > MinQr /\ cap_page[i].h > MinQr

\* C30: the capture step runs its strategies in the fixed order; the element it
\* accepts has both dimensions above 50 px and is the first such candidate of the
\* first strategy that has one; no strategy runs after the one that accepted; the
\* image returned is that element's, and the fallback image is returned only when
\* no strategy has a candidate of sufficient size.
C30_FirstValidWins ==
    cap_pc \in {"shoot", "done"} =>
        LET r == cap_res IN
        /\ r.tried = SubSeq(Order, 1, Len(r.tried))
        /\ r.elem # 0 =>
              /\ Big(r.elem) /\ Offers(r.by, r.elem)
              /\ r.tried[Len(r.tried)] = r.by
              /\ \A k \in 1..(Place(r.by) - 1), i \in 1..Len(cap_page) :
                    ~(Offers(Order[k], i) /\ Big(i))
              /\ \A j1, j2 \in 1..Len(Candidates(r.by, cap_page)) :
                    (Candidates(r.by, cap_page)[j2] = r.elem /\ j1 < j2) =>
                        ~(Offers(r.by, Candidates(r.by, cap_page)[j1])
                            /\ Big(Candidates(r.by, cap_page)[j1]))
        /\ r.elem = 0 =>
              /\ r.tried = Order
              /\ \A k \in 1..Len(Order), i \in 1..Len(cap_page) : ~(Offers(Order[k], i) /\ Big(i))
        /\ (cap_pc = "done" /\ cap_ret.kind = "return") =>
              /\ cap_ret.elem = r.elem
              /\ cap_ret.image = (IF r.elem = 0 THEN "fallback"
                                  ELSE IF r.by = "img_b64" THEN "src" ELSE "element")

C30_Witness ==
    /\ cap_pc = "done" /\ cap_ret = Image("return", "element", 2)
    /\ cap_res.by = "div" /\ cap_res.tried = <<"img_b64", "canvas", "div">>
    /\ cap_page[1].tag = "canvas" /\ cap_page[1].w = MinQr

\* The parts of C26 that do not concern the cookies: a status request answers
\* 404 exactly when the user had no registered session; one that answers success
\* has called get_cookies and close() and removed the session, so the next status
\* request of that user finds none.
PollRegistry ==
    l_last.op = "status" =>
        /\ l_last.status = "404" <=> ~l_poll.had
        /\ l_last.status = "404" => l_last.user \notin DOMAIN login_sessions
        /\ l_last.status = "success" =>
              /\ l_chk.exported /\ l_chk.closed
              /\ l_last.user \notin DOMAIN login_sessions
              /\ l_site[l_last.user] = NoSite
        /\ l_last.status \notin {"404", "success"} => l_last.user \in DOMAIN login_sessions

----------------------------------------------------------------------------
\* Profile-directory claims

\* C23: close_session(u) answers success whether or not u had a session; after
\* it u has no registry entry and no profile data, and a second close_session(u)
\* in a row leaves u's registry entry and directory as the first left them.
C23_CloseSessionIdempotent ==
    d_last.op = "close_session" =>
        /\ d_last.result = "success"
        /\ d_last.user \notin d_login
        /\ d_disk[d_last.user] = "absent"
        /\ d_last.twice =>
              /\ d_disk[d_last.user] = d_last.before.disk[d_last.user]
              /\ d_last.user \notin d_last.before.login

\* C25: after cleanup_user_data returns, nothing remains of the manager's
\* profile directory, whatever its state was.
C25_NoFilesAfterCleanup ==
    d_last.op = "cleanup_user_data" => d_disk[d_last.user] = "absent"

\* C27: at no moment do two running browsers use the same profile directory.
C27_ExclusiveProfile ==
    \A u \in ProfUsers : LiveOn(d_login, d_task, u) <= 1

\* C28: a close_session or a force_fresh QR request for user u leaves the
\* profile directory of every other user v as it was.
C28_OtherProfilesKept ==
    d_last.op \in {"close_session", "qrcode_fresh"} =>
        \A v \in ProfUsers \ {d_last.user} : d_disk[v] = d_last.before.disk[v]

----------------------------------------------------------------------------
\* Claims C31 to C40

\* C31: when no strategy of the QR capture accepts an element, the image
\* returned is a screenshot of the whole page and the reply carries a marker
\* that a reply with a captured QR element does not carry.
C31_DegradedMarked ==
    (cap_pc = "done" /\ cap_ret.kind = "return" /\ cap_res.elem = 0) =>
        /\ cap_ret.area = "page"
        /\ cap_ret.reply # CaptureReply("return")

\* The place of the first call x in the log of the publish run, 0 without one.
PAt(x) == IF Count(x) > 0 THEN CHOOSE i \in 1..Len(p_log) : p_log[i] = x /\ \A j \in 1..(i - 1) : p_log[j] # x
          ELSE 0

\* C32: publish_content returns (True, ...) only when, in this order, the login
\* check passed, the publish page was opened, the files were given to the file
\* input and the publish button was clicked; without a file input, or without a
\* publish button, it returns (False, message) and runs no later step.
C32_StepsInOrder ==
    p_pc = "done" =>
        /\ (p_ret.kind = "return" /\ p_ret.ok) =>
              /\ Count("login_url") = 0
              /\ 0 < PAt("get_publish") /\ PAt("get_publish") < PAt("upload")
              /\ PAt("upload") < PAt("click")
        /\ p_exc = "Upload input not found" =>
              /\ p_ret = Ret("return", FALSE, p_exc)
              /\ Count("upload") = 0 /\ Count("title") = 0 /\ Count("desc") = 0
              /\ Count("click") = 0
        /\ p_exc = "Publish button not found" =>
              /\ p_ret = Ret("return", FALSE, p_exc)
              /\ Count("click") = 0

\* C33: in a video task the publish button is clicked only after the re-upload
\* text has been seen; when the wait for it times out the run returns
\* (False, ...) and neither fills the fields nor clicks.
C33_UploadSeenBeforeSubmit ==
    (p_pc = "done" /\ p_task.publish_type = "video") =>
        /\ Count("click") > 0 => (0 < PAt("upload_seen") /\ PAt("upload_seen") < PAt("click"))
        /\ Count("upload_timeout") > 0 =>
              /\ p_ret.kind = "return" /\ ~p_ret.ok
              /\ Count("title") = 0 /\ Count("desc") = 0 /\ Count("click") = 0

\* The engines a pool call has closed, from its events.
ClosedBy(tr) == {tr[k].eng : k \in {j \in 1..Len(tr) : tr[j].ev = "close"}}

\* C34: cleanup_idle(idle_timeout) closes and removes exactly the available
\* engines idle for more than idle_timeout; the others stay in the list, in
\* their order and unclosed; in_use is unchanged.
C34_CleanupIdleFrame ==
    [][\A t \in IdleTimeouts :
          cleanup_idle(t) =>
              LET gone == {i \in 1..Len(available) : now - available[i].last_used > t}
                  stay == (1..Len(available)) \ gone
              IN  /\ Len(available') = Cardinality(stay)
                  /\ \A i \in stay :
                        /\ available'[Cardinality({j \in stay : j <= i})] = available[i]
                        /\ mgr'[available[i].eng] = mgr[available[i].eng]
                  /\ ClosedBy(trace') = {available[i].eng : i \in gone}
                  /\ \A i \in gone : mgr'[available[i].eng] = NoManager
                  /\ in_use' = in_use
                  /\ \A u \in DOMAIN in_use : mgr'[in_use[u]] = mgr[in_use[u]]]_vars

C34_Witness ==
    /\ last.op = "cleanup_idle"
    /\ ClosedBy(trace) # {}
    /\ \E i \in 1..Len(available) : now - available[i].last_used = 1

\* C35: release(u, keep_alive) of a checked-out user removes u from in_use and
\* either appends the engine, unclosed, to the tail of available (keep_alive and
\* fewer than max_size available) or closes it and leaves available as it was;
\* for a user that is not checked out it changes nothing and closes nothing.
C35_ReleaseEffect ==
    [][\A u \in Users, keep_alive \in BOOLEAN :
          release(u, keep_alive) =>
              IF u \in DOMAIN in_use
              THEN LET e == in_use[u] IN
                   /\ DOMAIN in_use' = DOMAIN in_use \ {u}
                   /\ \A v \in DOMAIN in_use' : in_use'[v] = in_use[v]
                   /\ \A f \in Engines \ {e} : mgr'[f] = mgr[f]
                   /\ IF keep_alive /\ Len(available) < max_size
                      THEN /\ Len(available') = Len(available) + 1
                           /\ SubSeq(available', 1, Len(available)) = available
                           /\ available'[Len(available')].eng = e
                           /\ mgr'[e] = mgr[e]
                           /\ ClosedBy(trace') = {}
                      ELSE /\ available' = available
                           /\ ClosedBy(trace') = {e}
                           /\ mgr'[e] = NoManager
              ELSE /\ in_use' = in_use /\ available' = available /\ mgr' = mgr
                   /\ ClosedBy(trace') = {}]_vars

C35_Witness ==
    /\ last.op = "release" /\ last.path = "kept"
    /\ Len(available) = 2
    /\ available[2].eng = last.ret
    /\ last.user \notin DOMAIN in_use

\* C36: the engines checked out and the engines available are never more than
\* max_size together; no engine is both checked out and available, checked out
\* for two users, or twice in the available list.
C36_PoolSize ==
    /\ Cardinality(DOMAIN in_use) + Len(available) <= max_size
    /\ Range(in_use) \cap AvailableEngines = {}
    /\ \A u, v \in DOMAIN in_use : in_use[u] = in_use[v] => u = v
    /\ \A i, j \in 1..Len(available) : available[i].eng = available[j].eng => i = j

C36_Witness ==
    /\ Cardinality(DOMAIN in_use) = 1 /\ Len(available) = 1
    /\ last.op = "acquire" /\ last.path = "warm"

\* C39: the permits taken from the semaphore are always as many as the
\* background_publisher bodies in progress, whichever way earlier runs ended,
\* and every queued publish task is admitted in the end.
C39_PermitsNeverLeak ==
    /\ [](a_sem >= 0 /\ a_sem + Cardinality(Admitted) = AdmissionLimit)
    /\ \A t \in Tasks : (a_task[t] = "queued") ~> (a_task[t] \in {"download", "publish", "browsing", "done"})

C39_Witness ==
    /\ \E t \in Tasks : a_task[t] = "done"
    /\ \E t \in Tasks : a_task[t] = "queued"
    /\ Cardinality(Admitted) = 1 /\ a_sem = AdmissionLimit - 1

\* C40: a QR request that overlapped no other request of the user ends with the
\* user registered exactly when it answered waiting_scan or logged_in, the entry
\* then being the manager the request created, not closed; after a timeout, an
\* exception or an error status its manager is closed and the user has no entry;
\* and a session registered before was closed before the new manager was created.
C40_EndpointRegistry ==
    \A i \in Reqs :
        (o_req[i].pc = "done" /\ ~o_req[i].over) =>
            LET r == o_req[i]
                ok == r.res \in {"waiting_scan", "logged_in"}
            IN  /\ (r.finReg # 0) <=> ok
                /\ ok => (r.finReg = i /\ ~r.finClosed)
                /\ ~ok => (r.res \in {"504", "500"} /\ r.finClosed /\ r.finReg = 0)
                /\ r.prior # 0 => r.priorClosed

\* C40 witness: a request that overlapped nothing and replaced the session an
\* earlier request had left has answered waiting_scan, and its manager is the
\* one registered.
C40_Witness ==
    \E i \in Reqs :
        /\ o_req[i].pc = "done" /\ ~o_req[i].over
        /\ o_req[i].prior # 0 /\ o_req[i].priorClosed
        /\ o_req[i].res = "waiting_scan" /\ o_reg = i /\ i \in o_live

\* C37: of QR requests of one user that overlap, a request's cleanup removes no
\* entry but its own manager's, no request ends in a KeyError, and a manager with
\* a running browser is the one registered.
C37_OverlapConsistent ==
    /\ \A i \in Reqs :
          (o_req[i].pc = "done" /\ o_req[i].over) =>
              (o_req[i].res # "KeyError" /\ o_req[i].rm \in {0, i})
    /\ \A m \in o_live : o_req[m].over => o_reg = m

\* The polls that saw the login of the same session.
SawSuccess(m) == {k \in Polls : o_poll[k].seen /\ o_poll[k].m = m}

\* C38: of two status polls of one user that both saw the login, each ends with
\* a success response, not in a KeyError, exactly one of them removed the entry,
\* and neither read the cookies of a browser the other had closed.
C38_BothPollsAnswer ==
    \A k1, k2 \in Polls :
        (/\ k1 # k2
         /\ o_poll[k1].m # 0
         /\ {k1, k2} \subseteq SawSuccess(o_poll[k1].m)
         /\ o_poll[k1].pc = "done" /\ o_poll[k2].pc = "done") =>
            /\ \A k \in {k1, k2} :
                  /\ o_poll[k].res \in {"success", "success_no_cookies"}
                  /\ ~o_poll[k].late
            /\ Cardinality({k \in SawSuccess(o_poll[k1].m) : o_poll[k].removed}) = 1

====
